---- MODULE Spec2Model ----
(***************************************************************************)
(* A model of the core of pdf_extractor_new: the footnote matcher, the     *)
(* anti-hallucination verifier, the output formatter, the large-document   *)
(* checkpointing loop, page-level error recovery, and the per-page         *)
(* reconstruction (script attachment, column split, metadata filter).      *)
(*                                                                         *)
(* Conventions.                                                            *)
(*  - A Python str is a sequence of one-character tokens.  ASCII           *)
(*    characters stand for themselves; "NL" is the newline, "kome" is the  *)
(*    reference mark U+203B, "chu" is the kanji U+6CE8.                    *)
(*  - Confidences are kept in hundredths (0.95 is 95).                     *)
(*  - Every component has one record-valued variable; a specification of   *)
(*    one component keeps the other components' variables at Off.          *)
(***************************************************************************)
EXTENDS Integers, Sequences, FiniteSets, TLC

VARIABLES fn,    \* FootnoteExtractor.match_markers_to_definitions
          ah,    \* AntiHallucinationVerifier.verify
          fmt,   \* OutputFormatter.format_document / split_by_pages
          ld,    \* LargeDocumentExtractor.extract and its checkpoint file
          pg,    \* MasterExtractor._extract_pages_safe
          mx,    \* SafeExtractor.extract_safe / MasterExtractor.extract
          col,   \* JapanesePDFExtractor._detect_columns
          scr,   \* JapanesePDFExtractor._integrate_super_subscripts
          ep,    \* JapanesePDFExtractor._extract_page
          pn,    \* JapanesePDFExtractor._is_page_number_not_content
          orch   \* BatchProcessor._process_parallel and the API's batch tasks

vars == <<fn, ah, fmt, ld, pg, mx, col, scr, ep, pn, orch>>

Off == [pc |-> "off"]

(***************************************************************************)
(* Generic helpers on sequences.                                           *)
(***************************************************************************)
Min(a, b) == IF a <= b THEN a ELSE b

SeqsUpTo(S, n) == UNION {[1..k -> S] : k \in 0..n}

Range(s) == {s[i] : i \in 1..Len(s)}

\* s[i..] starts with the sequence p
StartsAt(s, i, p) ==
    /\ i >= 1
    /\ i + Len(p) - 1 <= Len(s)
    /\ \A k \in 1..Len(p) : s[i + k - 1] = p[k]

(***************************************************************************)
(* Footnote matcher (footnote_extractor.py).                               *)
(***************************************************************************)
MaxMarkers == 2
MaxDefinitions == 2
MaxPages == 2

MarkerStrings == { <<"*", "1">>, <<"*", "2">>, <<"chu", "1">> }

_same_marker_type(marker1, marker2) ==
    LET \* str.startswith
        startswith(s, p) == StartsAt(s, 1, p)
    IN
    \/ startswith(marker1, <<"*">>) /\ startswith(marker2, <<"*">>)
    \/ startswith(marker1, <<"kome">>) /\ startswith(marker2, <<"kome">>)
    \/ startswith(marker1, <<"chu">>) /\ startswith(marker2, <<"chu">>)
    \/ marker1 = <<"dagger">> /\ marker2 = <<"dagger">>
    \/ marker1 = <<"ddagger">> /\ marker2 = <<"ddagger">>
    \/ startswith(marker1, <<"[">>) /\ startswith(marker2, <<"[">>)
    \/ startswith(marker1, <<"(">>) /\ startswith(marker2, <<"(">>)

\* a score that gives the page and type bonuses but nothing for equal marker
\* strings
MatchConfidenceBonusesOnly(marker, definition) ==
    (IF marker.page_number = definition.page_number THEN 30 ELSE 0)
      + (IF _same_marker_type(marker.marker, definition.marker) THEN 20 ELSE 0)

\* a score whose same-family bonus is 0.3 instead of 0.2
MatchConfidenceLargerBonus(marker, definition) ==
    LET normed == IF SelectSeq(marker.marker, LAMBDA x : x \notin {" ", ":"})
                       = SelectSeq(definition.marker,
                                   LAMBDA x : x \notin {" ", ":"})
                  THEN 95 ELSE 0
    IN  Min(normed
              + (IF marker.page_number = definition.page_number THEN 30 ELSE 0)
              + (IF _same_marker_type(marker.marker, definition.marker)
                 THEN 30 ELSE 0), 100)

_calculate_match_confidence(marker, definition) ==
    LET \* str.replace(c, ''): drop every occurrence of the one-character string c
        RemoveChar(s, c) == SelectSeq(s, LAMBDA x : x # c)
    IN
    LET exact == IF marker.marker = definition.marker THEN 100 ELSE 0
        marker_norm == RemoveChar(RemoveChar(marker.marker, " "), ":")
        def_norm == RemoveChar(RemoveChar(definition.marker, " "), ":")
        normed == IF marker_norm = def_norm THEN 95 ELSE exact
        paged == IF marker.page_number = definition.page_number
                 THEN normed + 30 ELSE normed
        typed == IF _same_marker_type(marker.marker, definition.marker)
                 THEN paged + 20 ELSE paged
    IN  Min(typed, 100)

\* The inner loop over definitions for one marker, from index k on.  best is
\* the index of best_match (0 for None).  The membership test
\* `definition in matched_definitions` raises TypeError when the definition
\* cannot be hashed.
RECURSIVE BestMatch(_, _, _, _, _, _)
BestMatch(marker, definitions, matched_definitions, k, best, best_confidence) ==
    LET \* @dataclass with eq=True and frozen=False sets __hash__ to None: an
        \* instance cannot be a member of (or be looked up in) a set.
        FootnoteDefinitionHashable == FALSE
    IN
    IF k > Len(definitions)
    THEN [raised |-> FALSE, best |-> best, confidence |-> best_confidence]
    ELSE IF ~FootnoteDefinitionHashable
    THEN [raised |-> TRUE, best |-> 0, confidence |-> 0]
    ELSE IF definitions[k] \in matched_definitions
    THEN BestMatch(marker, definitions, matched_definitions, k + 1,
                   best, best_confidence)
    ELSE LET confidence == _calculate_match_confidence(marker, definitions[k])
         IN  IF confidence > best_confidence
             THEN BestMatch(marker, definitions, matched_definitions, k + 1,
                            k, confidence)
             ELSE BestMatch(marker, definitions, matched_definitions, k + 1,
                            best, best_confidence)

\* The outer loop over markers, from index i on.  A match records the
\* indexes of its marker and of its definition, and the confidence.
RECURSIVE MatchLoop(_, _, _, _, _)
MatchLoop(markers, definitions, i, matches, matched_definitions) ==
    IF i > Len(markers)
    THEN [raised |-> FALSE, matches |-> matches]
    ELSE LET b == BestMatch(markers[i], definitions, matched_definitions,
                            1, 0, 0)
         IN  IF b.raised
             THEN [raised |-> TRUE, matches |-> <<>>]
             ELSE IF b.best # 0 /\ b.confidence > 50
             THEN MatchLoop(markers, definitions, i + 1,
                            Append(matches, [marker |-> i,
                                             definition |-> b.best,
                                             confidence |-> b.confidence]),
                            matched_definitions \cup {definitions[b.best]})
             ELSE MatchLoop(markers, definitions, i + 1, matches,
                            matched_definitions)

match_markers_to_definitions(markers, definitions) ==
    MatchLoop(markers, definitions, 1, <<>>, {})

FnInit ==
    LET \* FootnoteDefinition
        FootnoteDefinition ==
            [marker : MarkerStrings, text : {"ta", "tb"}, page_number : 1..MaxPages]
    IN
    LET \* FootnoteMarker: x, y and context play no part in matching
        FootnoteMarker == [marker : MarkerStrings, page_number : 1..MaxPages]
    IN
    /\ fn \in [pc : {"ready"},
               markers : SeqsUpTo(FootnoteMarker, MaxMarkers),
               definitions : SeqsUpTo(FootnoteDefinition, MaxDefinitions),
               matches : {<<>>}]
    /\ ah = Off /\ fmt = Off /\ ld = Off /\ pg = Off /\ mx = Off
    /\ col = Off /\ scr = Off /\ ep = Off /\ pn = Off /\ orch = Off

\* One call of match_markers_to_definitions: it returns a list of matches or
\* ends with the TypeError propagating to the caller.
MatchMarkers ==
    /\ fn.pc = "ready"
    /\ LET r == match_markers_to_definitions(fn.markers, fn.definitions)
       IN  fn' = [fn EXCEPT !.pc = IF r.raised THEN "TypeError" ELSE "returned",
                            !.matches = r.matches]
    /\ UNCHANGED <<ah, fmt, ld, pg, mx, col, scr, ep, pn, orch>>

SpecFootnote ==
    /\ FnInit
    /\ [][MatchMarkers]_vars

\* C1: for any markers and definitions match_markers_to_definitions returns
\* matches in which each definition is used by at most one match, and every
\* marker left unmatched has no unconsumed definition scoring above 0.5.
C1_EachDefinitionUsedOnce ==
    (fn.pc # "ready") =>
        /\ fn.pc = "returned"
        /\ \A a, b \in 1..Len(fn.matches) :
              a # b => fn.matches[a].definition # fn.matches[b].definition
        /\ \A i \in 1..Len(fn.markers) :
              (\A a \in 1..Len(fn.matches) : fn.matches[a].marker # i) =>
                 \A k \in 1..Len(fn.definitions) :
                    _calculate_match_confidence(fn.markers[i], fn.definitions[k]) > 50
                       => \E a \in 1..Len(fn.matches) :
                             fn.matches[a].definition = k

\* C28: for every list of markers and every list of definitions, both
\* non-empty included, match_markers_to_definitions completes normally and
\* returns a list of matches; tracking the matched definitions raises no
\* error.
C28_MatchCompletesNormally ==
    (fn.pc \in {"returned", "TypeError"}) =>
        /\ fn.pc # "TypeError"
        /\ fn.matches \in Seq([marker : 1..Len(fn.markers),
                                definition : 1..Len(fn.definitions),
                                confidence : 0..100])

\* the call completes normally when one of the two lists is empty
MatchCompletesOnAnEmptyList ==
    (fn.pc \in {"returned", "TypeError"}
       /\ (fn.markers = <<>> \/ fn.definitions = <<>>)) =>
        fn.pc = "returned" /\ fn.matches = <<>>

\* One call of _calculate_match_confidence on a marker and a definition; the
\* marker strings are texts the marker and definition patterns accept.
ConfidenceInit ==
    /\ LET strings == MarkerStrings
                         \cup { <<"*", "1", ":">>, <<"kome">>, <<"dagger">>,
                                <<"[", "1", "]">>, <<"(", "1", ")">> }
       IN  fn \in [pc : {"confidence_ready"},
                   marker : [marker : strings, page_number : 1..MaxPages],
                   definition : [marker : strings, text : {"ta"},
                                 page_number : 1..MaxPages],
                   confidence : {0}]
    /\ ah = Off /\ fmt = Off /\ ld = Off /\ pg = Off /\ mx = Off
    /\ col = Off /\ scr = Off /\ ep = Off /\ pn = Off /\ orch = Off

CalculateMatchConfidence ==
    /\ fn.pc = "confidence_ready"
    /\ fn' = [fn EXCEPT
              !.pc = "confidence_returned",
              !.confidence = _calculate_match_confidence(fn.marker,
                                                         fn.definition)]
    /\ UNCHANGED <<ah, fmt, ld, pg, mx, col, scr, ep, pn, orch>>

SpecConfidence ==
    /\ ConfidenceInit
    /\ [][CalculateMatchConfidence]_vars

\* the marker strings start with the character of their family (asterisk,
\* kome, chu, dagger, bracket, parenthesis)
DifferentFamilies(marker1, marker2) == marker1[1] # marker2[1]

\* C13: _calculate_match_confidence returns more than 0.5 whenever marker and
\* definition have identical marker strings and are on the same page, and at
\* most 0.3 whenever their markers belong to different families and they
\* are on different pages.
C13_ConfidenceBounds ==
    (fn.pc = "confidence_returned") =>
        /\ (/\ fn.marker.marker = fn.definition.marker
            /\ fn.marker.page_number = fn.definition.page_number)
               => fn.confidence > 50
        /\ (/\ DifferentFamilies(fn.marker.marker, fn.definition.marker)
            /\ fn.marker.page_number # fn.definition.page_number)
               => fn.confidence <= 30

\* a returned score for a marker and a definition with the same marker string
\* on the same page
C13_Witness ==
    /\ fn.pc = "confidence_returned"
    /\ fn.marker.marker = fn.definition.marker
    /\ fn.marker.page_number = fn.definition.page_number
    /\ fn.confidence = 100

\* the marker strings of the pair differ after removing spaces and colons
NormalizedMarkersDiffer ==
    SelectSeq(fn.marker.marker, LAMBDA x : x \notin {" ", ":"})
        # SelectSeq(fn.definition.marker, LAMBDA x : x \notin {" ", ":"})

\* C29: a marker is matched to a definition only if their marker strings
\* are equal after removing spaces and colons: for a pair whose marker
\* strings differ, the same-page bonus and the same-family bonus together
\* never satisfy the acceptance condition, confidence strictly above 0.5.
C29_BonusesAloneNeverAccepted ==
    (fn.pc = "confidence_returned" /\ NormalizedMarkersDiffer) =>
        ~(fn.confidence > 50)

\* a returned score for two different markers of one family on one page:
\* both bonuses, exactly 0.5
C29_Witness ==
    /\ fn.pc = "confidence_returned"
    /\ NormalizedMarkersDiffer
    /\ fn.marker.page_number = fn.definition.page_number
    /\ _same_marker_type(fn.marker.marker, fn.definition.marker)
    /\ fn.confidence = 50

(***************************************************************************)
(* Regular expressions (Python re), as far as the patterns of the          *)
(* repository need them.  A pattern is a tree; Ends(re, s, i, ic) is the   *)
(* set of positions at which a match of re that starts at position i of s  *)
(* can end (position k is "before s[k]").  ic is re.IGNORECASE; ^ and $    *)
(* are the re.MULTILINE ones.                                              *)
(***************************************************************************)
Digits == {"0", "1", "2", "3", "4", "5", "6", "7", "8", "9"}
Whitespace == {" ", "NL", "TAB"}

\* str.lower() on the upper-case letters the patterns use
SameChar(a, b, ic) ==
    LET Fold(c) ==
            CASE c = "A" -> "a" [] c = "B" -> "b" [] c = "C" -> "c"
              [] c = "E" -> "e" [] c = "G" -> "g" [] c = "I" -> "i"
              [] c = "N" -> "n" [] c = "O" -> "o" [] c = "P" -> "p"
              [] c = "R" -> "r" [] c = "S" -> "s" [] c = "T" -> "t"
              [] OTHER -> c
    IN  IF ic THEN Fold(a) = Fold(b) ELSE a = b

Lit(c) == [t |-> "lit", c |-> c]
Lits(cs) == [t |-> "cat", rs |-> [k \in 1..Len(cs) |-> Lit(cs[k])]]
In(S) == [t |-> "in", s |-> S]
Cat(rs) == [t |-> "cat", rs |-> rs]
Alt(rs) == [t |-> "alt", rs |-> rs]
Star(r) == [t |-> "star", r |-> r]
Plus(r) == [t |-> "plus", r |-> r]
Bol == [t |-> "bol"]
Eol == [t |-> "eol"]
NotAhead(r) == [t |-> "nla", r |-> r]

RECURSIVE Ends(_, _, _, _)
RECURSIVE EndsCat(_, _, _, _, _)
RECURSIVE EndsStar(_, _, _, _, _)

Ends(re, s, i, ic) ==
    CASE re.t = "lit" ->
            IF i <= Len(s) /\ SameChar(s[i], re.c, ic) THEN {i + 1} ELSE {}
      [] re.t = "in" ->
            IF i <= Len(s) /\ \E c \in re.s : SameChar(s[i], c, ic)
            THEN {i + 1} ELSE {}
      [] re.t = "notin" ->
            IF i <= Len(s) /\ ~\E c \in re.s : SameChar(s[i], c, ic)
            THEN {i + 1} ELSE {}
      [] re.t = "cat" -> EndsCat(re.rs, 1, s, {i}, ic)
      [] re.t = "alt" -> UNION {Ends(re.rs[k], s, i, ic) : k \in 1..Len(re.rs)}
      [] re.t = "star" -> EndsStar(re.r, s, {i}, {i}, ic)
      [] re.t = "plus" ->
            LET first == Ends(re.r, s, i, ic)
            IN  EndsStar(re.r, s, first, first, ic)
      [] re.t = "bol" -> IF i = 1 \/ s[i - 1] = "NL" THEN {i} ELSE {}
      [] re.t = "eol" -> IF i = Len(s) + 1 \/ s[i] = "NL" THEN {i} ELSE {}
      [] re.t = "nla" -> IF Ends(re.r, s, i, ic) = {} THEN {i} ELSE {}

\* the parts rs[k..] in sequence, from any of the positions in from
EndsCat(rs, k, s, from, ic) ==
    IF k > Len(rs) \/ from = {}
    THEN from
    ELSE EndsCat(rs, k + 1, s,
                 UNION {Ends(rs[k], s, j, ic) : j \in from}, ic)

\* zero or more repetitions of r: seen is closed under one more repetition
EndsStar(r, s, frontier, seen, ic) ==
    LET next == UNION {Ends(r, s, j, ic) : j \in frontier} \ seen
    IN  IF next = {} THEN seen
        ELSE EndsStar(r, s, next, seen \cup next, ic)

\* re.search(pattern, s) is not None
Search(re, s, ic) == \E i \in 1..(Len(s) + 1) : Ends(re, s, i, ic) # {}

(***************************************************************************)
(* Anti-hallucination verifier (anti_hallucination.py).                    *)
(***************************************************************************)
PatternRe(k) ==
    LET LowerLetters == {"a", "b", "c", "d", "e", "f", "g", "h", "i", "j", "k", "l",
                         "m", "n", "o", "p", "q", "r", "s", "t", "u", "v", "w", "x",
                         "y", "z"}
    IN
    LET NotIn(S) == [t |-> "notin", s |-> S]
    IN
    CASE k = 1 -> Cat(<<Bol, Alt(<<Lits(<<"#">>), Lits(<<"#", "#">>),
                  Lits(<<"#", "#", "#">>), Lits(<<"#", "#", "#", "#">>),
                  Lits(<<"#", "#", "#", "#", "#">>), Lits(<<"#", "#", "#",
                  "#", "#", "#">>)>>), Plus(In(Whitespace)),
                  Alt(<<Lits(<<"u76EE", "u6B21">>), Lits(<<"u6982",
                  "u8981">>), Lits(<<"u306F", "u3058", "u3081",
                  "u306B">>), Lits(<<"u7D50", "u8AD6">>), Lits(<<"u307E",
                  "u3068", "u3081">>)>>), Eol>>)
      [] k = 2 -> Cat(<<Bol, Alt(<<Lits(<<"T", "a", "b", "l", "e", " ",
                  "o", "f", " ", "C", "o", "n", "t", "e", "n", "t",
                  "s">>), Lits(<<"S", "u", "m", "m", "a", "r", "y">>),
                  Lits(<<"I", "n", "t", "r", "o", "d", "u", "c", "t", "i",
                  "o", "n">>), Lits(<<"C", "o", "n", "c", "l", "u", "s",
                  "i", "o", "n">>)>>), Eol>>)
      [] k = 3 -> Cat(<<Lit("*"), Lit("*"), Plus(NotIn({"*"})), Lit("*"),
                  Lit("*")>>)
      [] k = 4 -> Cat(<<Lit("_"), Lit("_"), Plus(NotIn({"_"})), Lit("_"),
                  Lit("_")>>)
      [] k = 5 -> Cat(<<Lit("*"), Plus(NotIn({"*"})), Lit("*"),
                  NotAhead(In(Digits))>>)
      [] k = 6 -> Cat(<<Lit("_"), Plus(NotIn({"_"})), Lit("_")>>)
      [] k = 7 -> Cat(<<Lit("<"), Plus(In(LowerLetters)),
                  Star(NotIn({">"})), Lit(">")>>)
      [] k = 8 -> Cat(<<Lit("<"), Lit("/"), Plus(In(LowerLetters)),
                  Lit(">")>>)
      [] k = 9 -> Cat(<<Lits(<<"T", "h", "i", "s", " ">>),
                  Alt(<<Lits(<<"s", "e", "c", "t", "i", "o", "n">>),
                  Lits(<<"d", "o", "c", "u", "m", "e", "n", "t">>),
                  Lits(<<"p", "a", "g", "e">>)>>), Lit(" "),
                  Alt(<<Lits(<<"d", "e", "s", "c", "r", "i", "b", "e",
                  "s">>), Lits(<<"c", "o", "n", "t", "a", "i", "n",
                  "s">>), Lits(<<"s", "h", "o", "w", "s">>)>>)>>)
      [] k = 10 -> Alt(<<Lits(<<"A", "s", " ", "s", "h", "o", "w", "n">>),
                  Lits(<<"A", "s", " ", "s", "e", "e", "n">>), Lits(<<"N",
                  "o", "t", "e", " ", "t", "h", "a", "t">>), Lits(<<"P",
                  "l", "e", "a", "s", "e", " ", "n", "o", "t", "e">>)>>)
      [] k = 11 -> Alt(<<Lits(<<"T", "h", "e", " ", "f", "o", "l", "l",
                  "o", "w", "i", "n", "g">>), Lits(<<"B", "e", "l", "o",
                  "w", " ", "i", "s">>), Lits(<<"A", "b", "o", "v", "e",
                  " ", "i", "s">>)>>)

NumPatterns == 11

\* len(re.findall(re, s)): leftmost matches, each search resuming where the
\* last match ended; the longest end is the greedy one for the patterns
\* counted here, which have one possible end per start
RECURSIVE FindallCount(_, _, _, _)
FindallCount(re, s, from, ic) ==
    LET starts == {i \in from..(Len(s) + 1) : Ends(re, s, i, ic) # {}}
    IN  IF starts = {} THEN 0
        ELSE LET i == CHOOSE x \in starts : \A y \in starts : x <= y
                 es == Ends(re, s, i, ic)
                 e == CHOOSE x \in es : \A y \in es : y <= x
             IN  1 + FindallCount(re, s, IF e > i THEN e ELSE i + 1, ic)

remove_suspicious_content(text) ==
    LET \* remove_suspicious_content from pattern k on
        RECURSIVE RemoveLoop(_, _, _)
        RemoveLoop(cleaned, k, removed) ==
            LET \* re.findall(re, s) and re.sub(re, repl, s) in one pass from position
                \* `from`: the matches found and the text with each match replaced
                RECURSIVE SubAll(_, _, _, _, _)
                SubAll(re, repl, s, from, ic) ==
                    LET starts == {i \in from..(Len(s) + 1) : Ends(re, s, i, ic) # {}}
                    IN  IF starts = {}
                        THEN [text |-> SubSeq(s, from, Len(s)), matches |-> <<>>]
                        ELSE LET i == CHOOSE x \in starts : \A y \in starts : x <= y
                                 es == Ends(re, s, i, ic)
                                 e == CHOOSE x \in es : \A y \in es : y <= x
                                 rest == SubAll(re, repl, s, e, ic)
                             IN  [text |-> SubSeq(s, from, i - 1) \o repl \o rest.text,
                                  matches |-> <<SubSeq(s, i, e - 1)>> \o rest.matches]
            IN
            IF k > NumPatterns
            THEN [cleaned |-> SubAll(Cat(<<Lit("NL"), Lit("NL"), Plus(Lit("NL"))>>),
                                     <<"NL", "NL">>, cleaned, 1, FALSE).text,
                  removed |-> removed]
            ELSE LET r == SubAll(PatternRe(k), <<>>, cleaned, 1, TRUE)
                 IN  RemoveLoop(r.text, k + 1, removed \o r.matches)
    IN
                                   RemoveLoop(text, 1, <<>>)

\* The ratio extracted / expected capped at 1.0, as a fraction
Rate(num, den) == [num |-> num, den |-> den]

\* a threshold test that every rate passes
RateAlwaysEnough(r, pct) == TRUE
RateAtLeast(r, pct) == r.num * 100 >= pct * r.den

min_element_match_rate == 70
min_position_consistency == 80

\* _check_hallucination_patterns from pattern k on: the patterns that
\* matched (suspicious holds their matched strings, kept here as the
\* pattern's number) and the issues appended
RECURSIVE HallucinationLoop(_, _, _, _)
HallucinationLoop(text, k, suspicious, issues) ==
    LET \* AntiHallucinationVerifier.hallucination_patterns: the source text of each
        \* pattern (the code tests it with `in`) and the pattern itself
        PatternSource(k_) ==
            CASE k_ = 1 -> <<"^", "#", "{", "1", ",", "6", "}", "\\", "s", "+",
                          "(", "?", ":", "u76EE", "u6B21", "|", "u6982", "u8981",
                          "|", "u306F", "u3058", "u3081", "u306B", "|", "u7D50",
                          "u8AD6", "|", "u307E", "u3068", "u3081", ")", "$">>
              [] k_ = 2 -> <<"^", "(", "?", ":", "T", "a", "b", "l", "e", " ", "o",
                          "f", " ", "C", "o", "n", "t", "e", "n", "t", "s", "|",
                          "S", "u", "m", "m", "a", "r", "y", "|", "I", "n", "t",
                          "r", "o", "d", "u", "c", "t", "i", "o", "n", "|", "C",
                          "o", "n", "c", "l", "u", "s", "i", "o", "n", ")", "$">>
              [] k_ = 3 -> <<"\\", "*", "\\", "*", "[", "^", "*", "]", "+", "\\",
                          "*", "\\", "*">>
              [] k_ = 4 -> <<"_", "_", "[", "^", "_", "]", "+", "_", "_">>
              [] k_ = 5 -> <<"\\", "*", "[", "^", "*", "]", "+", "\\", "*", "(",
                          "?", "!", "\\", "d", ")">>
              [] k_ = 6 -> <<"_", "[", "^", "_", "]", "+", "_">>
              [] k_ = 7 -> <<"<", "[", "a", "-", "z", "]", "+", "[", "^", ">", "]",
                          "*", ">">>
              [] k_ = 8 -> <<"<", "/", "[", "a", "-", "z", "]", "+", ">">>
              [] k_ = 9 -> <<"T", "h", "i", "s", " ", "(", "?", ":", "s", "e", "c",
                          "t", "i", "o", "n", "|", "d", "o", "c", "u", "m", "e",
                          "n", "t", "|", "p", "a", "g", "e", ")", " ", "(", "?",
                          ":", "d", "e", "s", "c", "r", "i", "b", "e", "s", "|",
                          "c", "o", "n", "t", "a", "i", "n", "s", "|", "s", "h",
                          "o", "w", "s", ")">>
              [] k_ = 10 -> <<"(", "?", ":", "A", "s", " ", "s", "h", "o", "w", "n",
                          "|", "A", "s", " ", "s", "e", "e", "n", "|", "N", "o",
                          "t", "e", " ", "t", "h", "a", "t", "|", "P", "l", "e",
                          "a", "s", "e", " ", "n", "o", "t", "e", ")">>
              [] k_ = 11 -> <<"(", "?", ":", "T", "h", "e", " ", "f", "o", "l", "l",
                          "o", "w", "i", "n", "g", "|", "B", "e", "l", "o", "w",
                          " ", "i", "s", "|", "A", "b", "o", "v", "e", " ", "i",
                          "s", ")">>
    IN
    LET \* the test that escalates a matching pattern to an issue
        IsFormattingPattern(k_) ==
            LET \* the substring test `p in s` on strings
                Contains(s, p) == \E i \in 1..(Len(s) + 1) : StartsAt(s, i, p)
            IN
            \/ Contains(PatternSource(k_), <<"*", "*">>)
            \/ Contains(PatternSource(k_), <<"_", "_">>)
            \/ Contains(PatternSource(k_), <<"<">>)
    IN
    IF k > NumPatterns
    THEN [suspicious |-> suspicious, issues |-> issues]
    ELSE IF Search(PatternRe(k), text, TRUE)
    THEN HallucinationLoop(text, k + 1, Append(suspicious, k),
                           IF IsFormattingPattern(k)
                           THEN Append(issues, <<"suspicious_formatting", k>>)
                           ELSE issues)
    ELSE HallucinationLoop(text, k + 1, suspicious, issues)

\* re.findall(r'\*(\d+)', text) as a set: the digit runs that follow a '*'
RECURSIVE DigitRun(_, _)
DigitRun(s, i) ==
    IF i <= Len(s) /\ s[i] \in Digits
    THEN <<s[i]>> \o DigitRun(s, i + 1) ELSE <<>>

\* r'--- PAGE \d+ START ---' and r'--- PAGE \d+ END ---'
PageMarkerRe(kind) ==
    Cat(<<Lits(<<"-", "-", "-", " ", "P", "A", "G", "E", " ">>),
          Plus(In(Digits)), Lit(" "), Lits(kind),
          Lits(<<" ", "-", "-", "-">>)>>)

START == <<"S", "T", "A", "R", "T">>
END == <<"E", "N", "D">>

\* a check that compares the START count with the END count only
CheckPageMarkersStartEndOnly(text, expected_pages) ==
    IF FindallCount(PageMarkerRe(START), text, 1, FALSE)
         # FindallCount(PageMarkerRe(END), text, 1, FALSE)
    THEN <<<<"page_marker_mismatch", 0>>>> ELSE <<>>

\* _check_page_markers: the issues it appends
_check_page_markers(text, expected_pages) ==
    LET starts == FindallCount(PageMarkerRe(START), text, 1, FALSE)
        ends == FindallCount(PageMarkerRe(END), text, 1, FALSE)
    IN  (IF starts # ends THEN <<<<"page_marker_mismatch", 0>>>> ELSE <<>>)
        \o (IF starts # expected_pages THEN <<<<"page_count_mismatch", 0>>>>
            ELSE <<>>)

\* AntiHallucinationVerifier.verify
verify(extracted_text, inventory_report, page_count) ==
    LET \* _check_footnote_completeness: the warnings it appends
        _check_footnote_completeness(text) ==
            LET in_text_markers ==
                    {DigitRun(text, i + 1) : i \in {j \in 1..Len(text) :
                        text[j] = "*" /\ j < Len(text) /\ text[j + 1] \in Digits}}
                \* rf'\*{marker_num}\s*[：:\s]'
                definition_re(marker_num) ==
                    Cat(<<Lit("*"), Lits(marker_num), Star(In(Whitespace)),
                          In({"fwcolon", ":"} \cup Whitespace)>>)
            IN  {<<"no_definition", n>> : n \in {m \in in_text_markers :
                        ~Search(definition_re(m), text, FALSE)}}
    IN
    LET \* _check_element_count: the rate returned, and what it appends.  The
        \* extracted count is inventory['total_extracted'] when the report has the
        \* key, else the word count of the text
        _check_element_count(text, inventory) ==
            LET \* len(text.split()): the number of maximal runs of non-whitespace
                WordCount(s) ==
                    Cardinality({i \in 1..Len(s) :
                                    /\ s[i] \notin Whitespace
                                    /\ (i = 1 \/ s[i - 1] \in Whitespace)})
            IN
            LET expected == inventory.total_expected
                extracted == IF inventory.total_extracted.present
                             THEN inventory.total_extracted.value
                             ELSE WordCount(text)
            IN  IF expected = 0
                THEN [rate |-> Rate(1, 1), issues |-> <<>>, warnings |-> {}]
                ELSE [rate |-> IF extracted >= expected THEN Rate(1, 1)
                               ELSE Rate(extracted, expected),
                      issues |-> IF 2 * extracted < expected
                                 THEN <<<<"severe_content_loss", 0>>>> ELSE <<>>,
                      warnings |->
                         IF 2 * extracted < expected THEN {}
                         ELSE IF 10 * extracted < 7 * expected
                         THEN {<<"moderate_content_loss", <<>>>>}
                         ELSE IF 2 * extracted > 3 * expected
                         THEN {<<"possible_duplication", <<>>>>}
                         ELSE {}]
    IN
    LET \* _check_position_distribution: the consistency (in hundredths) and the
        \* warning it appends
        _check_position_distribution(text, inventory) ==
            LET by_region == inventory.by_region
                \* r'[※注\*†‡]\d*'
                marker_re == Cat(<<In({"kome", "chu", "*", "dagger", "ddagger"}),
                                   Star(In(Digits))>>)
            IN  IF ~by_region.present THEN [consistency |-> 100, warnings |-> {}]
                ELSE IF by_region.top + by_region.middle + by_region.bottom = 0
                THEN [consistency |-> 100, warnings |-> {}]
                ELSE IF by_region.bottom > 0 /\ ~Search(marker_re, text, FALSE)
                THEN [consistency |-> 80, warnings |-> {<<"no_footnote_markers", <<>>>>}]
                ELSE [consistency |-> 100, warnings |-> {}]
    IN
    LET _check_hallucination_patterns(text) == HallucinationLoop(text, 1, <<>>, <<>>)
    IN
    LET c1 == _check_element_count(extracted_text, inventory_report)
        c2 == _check_position_distribution(extracted_text, inventory_report)
        c3 == _check_hallucination_patterns(extracted_text)
        c4 == _check_footnote_completeness(extracted_text)
        c5 == _check_page_markers(extracted_text, page_count)
        issues == c1.issues \o c3.issues \o c5
    IN  [passed |-> /\ Len(issues) = 0
                    /\ RateAtLeast(c1.rate, min_element_match_rate)
                    /\ c2.consistency >= min_position_consistency,
         issues |-> issues,
         warnings |-> c1.warnings \cup c2.warnings \cup c4,
         element_match_rate |-> c1.rate,
         position_consistency |-> c2.consistency,
         suspicious_content |-> c3.suspicious]

\* The texts given to the verifier: up to MaxChunks pieces, each a fragment
\* the checks react to (formatting spans, footnote markers, words, page
\* markers)
MaxChunks == 2
MaxExpected == 2
MaxPageCount == 1

StartMarker1 ==
    <<"-", "-", "-", " ", "P", "A", "G", "E", " ", "1", " ">> \o START
        \o <<" ", "-", "-", "-">>
EndMarker1 ==
    <<"-", "-", "-", " ", "P", "A", "G", "E", " ", "1", " ">> \o END
        \o <<" ", "-", "-", "-">>

RECURSIVE Concat(_)
Concat(ss) == IF ss = <<>> THEN <<>> ELSE Head(ss) \o Concat(Tail(ss))

\* inventory_report: the keys verify reads; present says whether the dict
\* has the key (inventory.get falls back to its default otherwise)
AhInit ==
    LET TextChunks ==
            { <<"*", "*", "b", "*", "*">>, <<"_", "_", "b", "_", "_">>,
              <<"<", "b", ">">>, <<"*", "1">>, <<"*">>, <<"b", " ", "b", " ">>,
              <<"b">>, <<" ">>, <<":">>, <<"1">>, StartMarker1, EndMarker1 }
    IN
    /\ ah \in
         [pc : {"ready"},
          extracted_text :
             {Concat(cs) : cs \in SeqsUpTo(TextChunks, MaxChunks)},
          inventory_report :
             [total_expected : {0, MaxExpected},
              total_extracted : {[present |-> FALSE, value |-> 0],
                                 [present |-> TRUE, value |-> 1]},
              by_region :
                 {[present |-> FALSE, top |-> 0, middle |-> 0, bottom |-> 0],
                  [present |-> TRUE, top |-> 0, middle |-> 0, bottom |-> 1]}],
          page_count : 0..MaxPageCount,
          result : {[passed |-> FALSE, issues |-> <<>>, warnings |-> {},
                     element_match_rate |-> Rate(0, 1),
                     position_consistency |-> 0,
                     suspicious_content |-> <<>>]},
          removed : {<<>>}]
    /\ fn = Off /\ fmt = Off /\ ld = Off /\ pg = Off /\ mx = Off
    /\ col = Off /\ scr = Off /\ ep = Off /\ pn = Off /\ orch = Off

\* a verify that hands the text to remove_suspicious_content and keeps the
\* cleaned text
VerifyRemovingSuspiciousContent ==
    /\ ah.pc = "ready"
    /\ ah' = [ah EXCEPT !.pc = "verified",
                        !.extracted_text =
                            remove_suspicious_content(ah.extracted_text).cleaned,
                        !.result = verify(ah.extracted_text,
                                          ah.inventory_report, ah.page_count)]
    /\ UNCHANGED <<fn, fmt, ld, pg, mx, col, scr, ep, pn, orch>>

\* One call of verify: the caller's text is a str and is not among the
\* fields of the VerificationResult
Verify ==
    /\ ah.pc = "ready"
    /\ ah' = [ah EXCEPT !.pc = "verified",
                        !.result = verify(ah.extracted_text,
                                          ah.inventory_report, ah.page_count)]
    /\ UNCHANGED <<fn, fmt, ld, pg, mx, col, scr, ep, pn, orch>>

\* A caller's own call of remove_suspicious_content, before or after verify,
\* keeping the cleaned text in place of the extracted one
RemoveSuspiciousContent ==
    /\ ah.pc \in {"ready", "verified"}
    /\ LET r == remove_suspicious_content(ah.extracted_text)
       IN  ah' = [ah EXCEPT !.pc = "cleaned",
                            !.extracted_text = r.cleaned,
                            !.removed = r.removed]
    /\ UNCHANGED <<fn, fmt, ld, pg, mx, col, scr, ep, pn, orch>>

SpecVerify ==
    /\ AhInit
    /\ [][Verify \/ RemoveSuspiciousContent]_vars

\* C22: the verifier only reports.  A verify step leaves the extracted text
\* as it was, and the text changes only in a step that is an explicit call
\* of remove_suspicious_content.
C22_VerifyOnlyReports ==
    [][ah.pc # "off" =>
          /\ ah'.pc = "verified" => ah'.extracted_text = ah.extracted_text
          /\ ah'.extracted_text # ah.extracted_text => ah'.pc = "cleaned"]_vars

C22_Witness ==
    /\ ah.pc = "verified"
    /\ ah.result.suspicious_content # <<>>
    /\ remove_suspicious_content(ah.extracted_text).cleaned # ah.extracted_text

\* C25: for every number N whose marker `*N` occurs in the text, verify
\* adds a missing-definition warning unless the text holds, at a place other
\* than the in-text marker itself, an occurrence of `*N` followed by a colon
\* or whitespace; an in-text marker never counts as its own definition.
MarkerAt(text, j, n) ==
    /\ j < Len(text) /\ text[j] = "*" /\ text[j + 1] \in Digits
    /\ DigitRun(text, j + 1) = n

DefinitionAt(text, i, n) ==
    /\ MarkerAt(text, i, n)
    /\ LET after == i + 1 + Len(n)
       IN  \E k \in after..Len(text) :
              /\ text[k] \in {":", "fwcolon"} \cup Whitespace
              /\ \A w \in after..(k - 1) : text[w] \in Whitespace

C25_WarningUnlessSeparateDefinition ==
    ah.pc = "verified" =>
        LET text == ah.extracted_text IN
        \A j \in 1..Len(text) :
            (j < Len(text) /\ text[j] = "*" /\ text[j + 1] \in Digits) =>
                LET n == DigitRun(text, j + 1) IN
                (<<"no_definition", n>> \in ah.result.warnings)
                    <=> ~\E i \in 1..Len(text), m \in 1..Len(text) :
                           i # m /\ DefinitionAt(text, i, n) /\ MarkerAt(text, m, n)

\* the same when an in-text marker may be its own definition
WarningUnlessAnyDefinition ==
    ah.pc = "verified" =>
        LET text == ah.extracted_text IN
        \A j \in 1..Len(text) :
            (j < Len(text) /\ text[j] = "*" /\ text[j + 1] \in Digits) =>
                LET n == DigitRun(text, j + 1) IN
                (<<"no_definition", n>> \in ah.result.warnings)
                    <=> ~\E i \in 1..Len(text) : DefinitionAt(text, i, n)

\* C2: verify on a text that contains a markdown bold span (`**bold**`)
\* returns a non-empty issues list and passed = False, whatever the
\* inventory report and the declared page count.
HasBoldSpan(text) == Search(PatternRe(3), text, FALSE)

C2_BoldIsAnIssue ==
    (ah.pc = "verified" /\ HasBoldSpan(ah.extracted_text)) =>
        /\ Len(ah.result.issues) > 0
        /\ ~ah.result.passed

\* C15: the verifier's passed is True exactly when the issue list is empty,
\* element_match_rate is at least 0.70 and position_consistency is at least
\* 0.80.
C15_PassedIffNoIssuesAndRates ==
    (ah.pc = "verified") =>
        (ah.result.passed = TRUE <=>
            /\ ah.result.issues = <<>>
            /\ 100 * ah.result.element_match_rate.num
                  >= 70 * ah.result.element_match_rate.den
            /\ ah.result.position_consistency >= 80)

\* a verification without issues that fails on the element match rate alone
C15_Witness ==
    /\ ah.pc = "verified"
    /\ ah.result.issues = <<>>
    /\ ah.result.position_consistency >= 80
    /\ 100 * ah.result.element_match_rate.num
          < 70 * ah.result.element_match_rate.den
    /\ ah.result.passed = FALSE

\* the number of whitespace-separated words of the text given to verify
TextWords ==
    Cardinality({i \in 1..Len(ah.extracted_text) :
                    /\ ah.extracted_text[i] \notin {" ", "NL", "TAB"}
                    /\ (i = 1 \/ ah.extracted_text[i - 1]
                                    \in {" ", "NL", "TAB"})})

\* C16: element_match_rate equals min(1.0, words / expected), where words is
\* the word count of the text given to the verifier and expected is the
\* expected element count; it is 1.0 when expected is zero and never exceeds
\* 1.0.
C16_RateIsCappedWordRatio ==
    (ah.pc = "verified") =>
        LET rate == ah.result.element_match_rate
            expected == ah.inventory_report.total_expected
        IN  /\ rate.num <= rate.den
            /\ IF expected = 0 \/ TextWords >= expected
               THEN rate.num = rate.den
               ELSE rate.num * expected = TextWords * rate.den

\* occurrences of the START and END markers of page 1, the only page
\* markers in the texts
MarkerCount(marker) ==
    Cardinality({i \in 1..Len(ah.extracted_text) :
                    StartsAt(ah.extracted_text, i, marker)})

HasPageMarkerIssue ==
    \E k \in 1..Len(ah.result.issues) :
        ah.result.issues[k][1] \in {"page_marker_mismatch",
                                   "page_count_mismatch"}

\* C17: the verifier adds an issue whenever the number of START markers
\* differs from the number of END markers or from the declared page count,
\* and adds no page-marker issue when all three are equal.
C17_PageMarkerIssueIffMismatch ==
    (ah.pc = "verified") =>
        (HasPageMarkerIssue <=>
            \/ MarkerCount(StartMarker1) # MarkerCount(EndMarker1)
            \/ MarkerCount(StartMarker1) # ah.page_count)

\* a verified text with one START marker, one END marker and a declared page
\* count of 1, and no page-marker issue
C17_Witness ==
    /\ ah.pc = "verified"
    /\ MarkerCount(StartMarker1) = 1
    /\ MarkerCount(EndMarker1) = 1
    /\ ah.page_count = 1
    /\ ~HasPageMarkerIssue

(***************************************************************************)
(* Output formatter (output_formatter.py).                                 *)
(***************************************************************************)
marker_length == 60

\* str(n) for n >= 0
RECURSIVE Str(_)
Str(n) ==
    LET DigitOf(d) ==
            CASE d = 0 -> "0" [] d = 1 -> "1" [] d = 2 -> "2" [] d = 3 -> "3"
              [] d = 4 -> "4" [] d = 5 -> "5" [] d = 6 -> "6" [] d = 7 -> "7"
              [] d = 8 -> "8" [] d = 9 -> "9"
    IN  IF n < 10 THEN <<DigitOf(n)>>
        ELSE Str(n \div 10) \o <<DigitOf(n % 10)>>

\* c * n
Repeat(c, n) == [k \in 1..n |-> c]

\* str.strip()
strip(s) ==
    LET keep == {i \in 1..Len(s) : s[i] \notin Whitespace}
    IN  IF keep = {} THEN <<>>
        ELSE LET lo == CHOOSE i \in keep : \A j \in keep : i <= j
                 hi == CHOOSE i \in keep : \A j \in keep : j <= i
             IN  SubSeq(s, lo, hi)

\* "\n".join(parts)
RECURSIVE JoinLines(_)
JoinLines(parts) ==
    IF parts = <<>> THEN <<>>
    ELSE IF Len(parts) = 1 THEN parts[1]
    ELSE parts[1] \o <<"NL">> \o JoinLines(Tail(parts))

\* the output_parts of the pages from page_num on
RECURSIVE PageParts(_, _)
PageParts(pages, page_num) ==
    LET _create_page_marker(page_num_, marker_type) ==
            LET page_marker_style == "dash"
            IN
            LET marker_char == CASE page_marker_style = "dash" -> "-"
                                 [] page_marker_style = "equals" -> "="
                                 [] page_marker_style = "hash" -> "#"
                                 [] OTHER -> "-"
                marker_text == <<" ", "P", "A", "G", "E", " ">> \o Str(page_num_)
                                  \o <<" ">> \o marker_type \o <<" ">>
                padding == (marker_length - Len(marker_text)) \div 2
            IN  IF padding > 0
                THEN Repeat(marker_char, padding) \o marker_text
                       \o Repeat(marker_char, marker_length - Len(marker_text) - padding)
                ELSE marker_text
    IN
    IF page_num > Len(pages) THEN <<>>
    ELSE << _create_page_marker(page_num, START), <<>>,
            strip(pages[page_num]), <<>>,
            _create_page_marker(page_num, END), <<>> >>
         \o PageParts(pages, page_num + 1)

format_document(pages, metadata, add_statistics) ==
    LET \* _create_footer
        _create_footer(metadata_) ==
            JoinLines(<<<<>>, Repeat("=", marker_length),
                        <<"E", "X", "T", "R", "A", "C", "T", "I", "O", "N", " ", "S",
                          "T", "A", "T", "I", "S", "T", "I", "C", "S">>,
                        Repeat("=", marker_length),
                        <<"T", "o", "t", "a", "l", " ", "P", "a", "g", "e", "s", ":",
                          " ">> \o Str(metadata_.page_count),
                        Repeat("=", marker_length)>>)
    IN
    LET \* _create_header for the file name "f", no timestamp (add_timestamp is
        \* False); metadata, when given, holds page_count
        _create_header(metadata_) ==
            LET name == <<"[", "D", "O", "C", "U", "M", "E", "N", "T", " ", "F", "I",
                          "L", "E", "N", "A", "M", "E", ":", " ", "f", "]">>
            IN  IF metadata_.present
                THEN name \o <<"NL", "[", "P", "A", "G", "E", "S", ":", " ">>
                        \o Str(metadata_.page_count) \o <<"]">>
                ELSE name
    IN
    LET \* re.sub(r'\n{4,}', '\n\n\n', s): a newline that has three newlines right
        \* before it is dropped
        CollapseBlankLines(s) ==
            LET keep(i) == ~(/\ i > 3
                             /\ s[i] = "NL" /\ s[i - 1] = "NL"
                             /\ s[i - 2] = "NL" /\ s[i - 3] = "NL")
                kept == SelectSeq([i \in 1..Len(s) |-> i], keep)
            IN  [k \in 1..Len(kept) |-> s[kept[k]]]
    IN
    LET output_parts ==
            << _create_header(metadata), <<>> >> \o PageParts(pages, 1)
              \o (IF add_statistics /\ metadata.present
                  THEN << _create_footer(metadata) >> ELSE <<>>)
    IN  strip(CollapseBlankLines(JoinLines(output_parts)))

RECURSIVE SplitFrom(_, _)
SplitFrom(text, from) ==
    LET EndSuffix == <<" ">> \o END \o <<" ", "-", "-", "-">>
    IN
    LET StartSuffix == <<" ">> \o START \o <<" ", "-", "-", "-">>
    IN
    LET \* r'--- PAGE (\d+) START ---\s*(.*?)\s*--- PAGE \1 END ---' with re.DOTALL,
        \* searched from position from on: the leftmost START marker that has an END
        \* marker of the same number after it; the lazy group ends before the first
        \* such END marker.  The page text is the group, stripped.
        PagePrefix == <<"-", "-", "-", " ", "P", "A", "G", "E", " ">>
    IN
    LET num(i) == DigitRun(text, i + Len(PagePrefix))
        after(i) == i + Len(PagePrefix) + Len(num(i)) + Len(StartSuffix)
        endLit(i) == PagePrefix \o num(i) \o EndSuffix
        endsOf(i) == {e \in after(i)..Len(text) : StartsAt(text, e, endLit(i))}
        starts == {i \in from..Len(text) :
                      /\ StartsAt(text, i, PagePrefix)
                      /\ num(i) # <<>>
                      /\ StartsAt(text, i + Len(PagePrefix) + Len(num(i)),
                                  StartSuffix)
                      /\ endsOf(i) # {}}
    IN  IF starts = {} THEN <<>>
        ELSE LET i == CHOOSE x \in starts : \A y \in starts : x <= y
                 e == CHOOSE x \in endsOf(i) : \A y \in endsOf(i) : x <= y
             IN  <<strip(SubSeq(text, after(i), e - 1))>>
                   \o SplitFrom(text, e + Len(endLit(i)))

split_by_pages(text) == SplitFrom(text, 1)

MaxFmtPages == 2
MaxPageLen == 1
FmtInit ==
    LET PageTexts == SeqsUpTo({"a", " ", "NL"}, MaxPageLen)
    IN
    /\ fmt \in [pc : {"ready"}, pages : SeqsUpTo(PageTexts, MaxFmtPages),
                with_metadata : BOOLEAN, add_statistics : BOOLEAN,
                formatted : {<<>>}, split : {<<>>}]
    /\ fn = Off /\ ah = Off /\ ld = Off /\ pg = Off /\ mx = Off
    /\ col = Off /\ scr = Off /\ ep = Off /\ pn = Off /\ orch = Off

\* format_document on the page list
FormatDocument ==
    /\ fmt.pc = "ready"
    /\ fmt' = [fmt EXCEPT
          !.pc = "formatted",
          !.formatted = format_document(fmt.pages,
                           [present |-> fmt.with_metadata,
                            page_count |-> Len(fmt.pages)],
                           fmt.add_statistics)]
    /\ UNCHANGED <<fn, ah, ld, pg, mx, col, scr, ep, pn, orch>>

\* split_by_pages on the formatted output
SplitByPages ==
    /\ fmt.pc = "formatted"
    /\ fmt' = [fmt EXCEPT !.pc = "split",
                          !.split = split_by_pages(fmt.formatted)]
    /\ UNCHANGED <<fn, ah, ld, pg, mx, col, scr, ep, pn, orch>>

SpecFormat ==
    /\ FmtInit
    /\ [][FormatDocument \/ SplitByPages]_vars

\* C3: split_by_pages applied to the output of format_document returns a
\* list of the same length whose i-th entry is the i-th page text with only
\* leading and trailing whitespace removed.
C3_RoundTrip ==
    (fmt.pc = "split") =>
        /\ Len(fmt.split) = Len(fmt.pages)
        /\ \A i \in 1..Len(fmt.pages) : fmt.split[i] = strip(fmt.pages[i])

(***************************************************************************)
(* Large-document extraction with checkpoints (large_doc_extractor.py).    *)
(* A page entry records which page it was produced from and whether it is  *)
(* the "[Page N extraction error]" placeholder.  The checkpoint file       *)
(* outlives an interrupted run; everything else is lost with the process.  *)
(***************************************************************************)
MaxTotalPages == 4
MaxBatchSize == 2
MaxCheckpointInterval == 2
MaxInterrupts == 1

NoCheckpoint == [state |-> "absent", page |-> 1, results |-> <<>>]

\* lines 178-188: the entries of pages batch_start+1 .. batch_end; a page in
\* failing raises inside _process_page
BatchPages(batch_start, batch_end, failing) ==
    [k \in 1..(batch_end - batch_start) |->
        [page |-> batch_start + k, error |-> (batch_start + k) \in failing]]

\* _load_checkpoint: (page, results) of a readable checkpoint, else (1, [])
_load_checkpoint(checkpoint) ==
    IF checkpoint.state = "valid"
    THEN [page |-> checkpoint.page, results |-> checkpoint.results]
    ELSE [page |-> 1, results |-> <<>>]

\* _save_checkpoint
_save_checkpoint(page, results) ==
    [state |-> "valid", page |-> page, results |-> results]

LdInit ==
    /\ \E total_pages \in 1..MaxTotalPages :
           ld \in [pc : {"idle"},
                   total_pages : {total_pages},
                   batch_size : 1..MaxBatchSize,
                   checkpoint_interval : 1..MaxCheckpointInterval,
                   failing : SUBSET (1..total_pages),
                   checkpoint : {NoCheckpoint},
                   all_pages : {<<>>},
                   batch_start : {0},
                   batch_num : {0},
                   stats : {[pages_processed |-> 0, errors |-> 0]},
                   interrupts : {0},
                   result : {<<>>}]
    /\ fn = Off /\ ah = Off /\ fmt = Off /\ pg = Off /\ mx = Off
    /\ col = Off /\ scr = Off /\ ep = Off /\ pn = Off /\ orch = Off

\* extract, lines 122-162: load the checkpoint and set up the batch loop
BeginExtract ==
    LET loaded == _load_checkpoint(ld.checkpoint)
    IN  ld' = [ld EXCEPT !.pc = "batches",
                         !.all_pages = loaded.results,
                         !.batch_start = loaded.page - 1,
                         !.batch_num = 0,
                         !.stats = [pages_processed |-> 0, errors |-> 0]]

\* a first extract call on the PDF
Extract ==
    /\ ld.pc = "idle"
    /\ BeginExtract
    /\ UNCHANGED <<fn, ah, fmt, pg, mx, col, scr, ep, pn, orch>>

\* one iteration of the batch loop, lines 163-202
ProcessBatch ==
    /\ ld.pc = "batches"
    /\ ld.batch_start < ld.total_pages
    /\ LET batch_end == Min(ld.batch_start + ld.batch_size, ld.total_pages)
           batch_pages == BatchPages(ld.batch_start, batch_end, ld.failing)
           all_pages == ld.all_pages \o batch_pages
           failed == Cardinality({k \in 1..Len(batch_pages) :
                                     batch_pages[k].error})
       IN  ld' = [ld EXCEPT
                 !.all_pages = all_pages,
                 !.batch_num = ld.batch_num + 1,
                 !.batch_start = ld.batch_start + ld.batch_size,
                 !.stats = [pages_processed |->
                               ld.stats.pages_processed
                                 + Len(batch_pages) - failed,
                            errors |-> ld.stats.errors + failed],
                 !.checkpoint =
                     IF batch_end % ld.checkpoint_interval = 0
                     THEN _save_checkpoint(batch_end, all_pages)
                     ELSE ld.checkpoint]
    /\ UNCHANGED <<fn, ah, fmt, pg, mx, col, scr, ep, pn, orch>>

\* lines 204-249: the loop is over; the output is written, the checkpoint
\* file removed and the result returned
Finish ==
    /\ ld.pc = "batches"
    /\ ld.batch_start >= ld.total_pages
    /\ ld' = [ld EXCEPT !.pc = "done",
                        !.result = ld.all_pages,
                        !.checkpoint = NoCheckpoint]
    /\ UNCHANGED <<fn, ah, fmt, pg, mx, col, scr, ep, pn, orch>>

\* the process is killed inside the batch loop: the page list in memory is
\* lost, the checkpoint file stays as it is
Interrupt ==
    /\ ld.pc = "batches"
    /\ ld.interrupts < MaxInterrupts
    /\ ld' = [ld EXCEPT !.pc = "interrupted",
                        !.interrupts = ld.interrupts + 1,
                        !.all_pages = <<>>,
                        !.batch_start = 0,
                        !.batch_num = 0]
    /\ UNCHANGED <<fn, ah, fmt, pg, mx, col, scr, ep, pn, orch>>

\* the process is killed inside _save_checkpoint, after open(..., 'w') has
\* truncated the file and before json.dump has completed
InterruptWhileSaving ==
    /\ ld.pc = "batches"
    /\ ld.interrupts < MaxInterrupts
    /\ ld.batch_start < ld.total_pages
    /\ Min(ld.batch_start + ld.batch_size, ld.total_pages)
         % ld.checkpoint_interval = 0
    /\ ld' = [ld EXCEPT !.pc = "interrupted",
                        !.interrupts = ld.interrupts + 1,
                        !.all_pages = <<>>,
                        !.batch_start = 0,
                        !.batch_num = 0,
                        !.checkpoint = [state |-> "corrupt", page |-> 1,
                                        results |-> <<>>]]
    /\ UNCHANGED <<fn, ah, fmt, pg, mx, col, scr, ep, pn, orch>>

\* extract is called again on the same PDF after an interruption
Restart ==
    /\ ld.pc = "interrupted"
    /\ BeginExtract
    /\ UNCHANGED <<fn, ah, fmt, pg, mx, col, scr, ep, pn, orch>>

SpecCheckpoint ==
    /\ LdInit
    /\ [][\/ Extract
         \/ ProcessBatch
         \/ Finish
         \/ Interrupt
         \/ InterruptWhileSaving
         \/ Restart]_vars

\* the page list of a run that is never interrupted
UninterruptedResult == BatchPages(0, ld.total_pages, ld.failing)

\* C4: a run that was interrupted and restarted on the same PDF finishes
\* with the page list of an uninterrupted run: total_pages entries, the
\* i-th one produced from page i.
C4_ResumeGivesSamePages ==
    (ld.pc = "done") =>
        /\ Len(ld.result) = ld.total_pages
        /\ ld.result = UninterruptedResult

(***************************************************************************)
(* Page extraction with recovery (master_extractor.py _extract_pages_safe,  *)
(* error_handler.py handle_extraction_error).  A page of the PDF is given  *)
(* by what its pre-analysis says and by what each extraction call on it    *)
(* does: return text, return nothing, or raise.                            *)
(***************************************************************************)
MaxDocPages == 2

\* the errors ErrorHandler.analyze_pdf left in self.errors
RECURSIVE AnalysisErrors(_, _)
AnalysisErrors(doc, page_num) ==
    IF page_num > Len(doc) THEN <<>>
    ELSE (CASE doc[page_num].analysis = "rotated" ->
                 <<[page_number |-> page_num, error_type |-> "rotation",
                    severity |-> "warning", recovered |-> FALSE,
                    recovery_method |-> "none"]>>
            [] doc[page_num].analysis = "scanned" ->
                 <<[page_number |-> page_num, error_type |-> "scanned",
                    severity |-> "warning", recovered |-> FALSE,
                    recovery_method |-> "none"]>>
            [] OTHER -> <<>>)
         \o AnalysisErrors(doc, page_num + 1)

\* ErrorHandler._add_error
_add_error(errors, error_type, severity, page_num) ==
    Append(errors, [page_number |-> page_num, error_type |-> error_type,
                    severity |-> severity, recovered |-> FALSE,
                    recovery_method |-> "none"])

\* ErrorHandler.handle_extraction_error: the strategies tried, in order, the
\* text returned, the success flag and the error list afterwards
handle_extraction_error(page, page_num, errors) ==
    LET \* ErrorHandler._mark_recovered
        _mark_recovered(errors_, page_num_, method) ==
            [k \in 1..Len(errors_) |->
                IF errors_[k].page_number = page_num_ /\ ~errors_[k].recovered
                THEN [errors_[k] EXCEPT !.recovered = TRUE, !.recovery_method = method]
                ELSE errors_[k]]
    IN
    IF page.words = "text"
    THEN [attempts |-> <<"extract_words">>, text |-> "recovered_words",
          success |-> TRUE,
          errors |-> _mark_recovered(errors, page_num, "simple_extraction")]
    ELSE IF page.chars = "text"
    THEN [attempts |-> <<"extract_words", "chars">>,
          text |-> "recovered_chars", success |-> TRUE,
          errors |-> _mark_recovered(errors, page_num, "char_extraction")]
    ELSE IF page.raw = "text"
    THEN [attempts |-> <<"extract_words", "chars", "extract_text">>,
          text |-> "recovered_raw", success |-> TRUE,
          errors |-> _mark_recovered(errors, page_num, "raw_extraction")]
    ELSE [attempts |-> <<"extract_words", "chars", "extract_text">>,
          text |-> "extraction_error_marker", success |-> FALSE,
          errors |-> _add_error(errors, "corruption", "error", page_num)]

\* one iteration of the page loop of _extract_pages_safe: the entry appended
\* for the page, the recovery attempts made and the error list afterwards
SafePage(page, page_num, errors) ==
    IF page.analysis = "scanned"
    THEN [text |-> IF page.extract = "text" THEN "extracted"
                   ELSE "scanned_page_marker",
          attempts |-> <<>>, errors |-> errors]
    ELSE IF page.extract = "raise"
    THEN LET r == handle_extraction_error(page, page_num, errors)
         IN  [text |-> IF r.success THEN r.text
                       ELSE "extraction_error_marker",
              attempts |-> r.attempts, errors |-> r.errors]
    ELSE [text |-> IF page.extract = "text" THEN "extracted" ELSE "empty",
          attempts |-> <<>>, errors |-> errors]

PgInit ==
    LET \* analysis: "none" (page_analyses is shorter than the PDF), "normal",
        \* "rotated" (a ROTATION warning was recorded for the page) or "scanned"
        DocPages ==
            LET Outcomes == {"text", "empty", "raise"}
            IN
            [analysis : {"none", "normal", "rotated", "scanned"},
             extract : {"text", "empty"},
             words : {"empty"}, chars : {"empty"}, raw : {"empty"}]
            \cup
            [analysis : {"scanned"}, extract : {"raise"},
             words : {"empty"}, chars : {"empty"}, raw : {"empty"}]
            \cup
            [analysis : {"none", "normal", "rotated"}, extract : {"raise"},
             words : Outcomes, chars : {"text", "empty"}, raw : Outcomes]
    IN
    /\ \E doc \in SeqsUpTo(DocPages, MaxDocPages) :
           pg = [pc |-> "loop", doc |-> doc, page_num |-> 1, pages |-> <<>>,
                 pages_with_content |-> <<>>,
                 attempts |-> <<>>, errors |-> AnalysisErrors(doc, 1)]
    /\ fn = Off /\ ah = Off /\ fmt = Off /\ ld = Off /\ mx = Off
    /\ col = Off /\ scr = Off /\ ep = Off /\ pn = Off /\ orch = Off

\* a loop body that appends nothing for a page without text
ExtractPageSafeSkippingEmpty ==
    /\ pg.pc = "loop"
    /\ pg.page_num <= Len(pg.doc)
    /\ LET r == SafePage(pg.doc[pg.page_num], pg.page_num, pg.errors)
       IN  pg' = [pg EXCEPT !.page_num = pg.page_num + 1,
                            !.pages = IF r.text = "empty" THEN pg.pages
                                      ELSE Append(pg.pages, r.text),
                            !.attempts = Append(pg.attempts, r.attempts),
                            !.errors = r.errors]
    /\ UNCHANGED <<fn, ah, fmt, ld, mx, col, scr, ep, pn, orch>>

\* the loop body for the next page
ExtractPageSafe ==
    /\ pg.pc = "loop"
    /\ pg.page_num <= Len(pg.doc)
    /\ LET r == SafePage(pg.doc[pg.page_num], pg.page_num, pg.errors)
       IN  pg' = [pg EXCEPT !.page_num = pg.page_num + 1,
                            !.pages = Append(pg.pages, r.text),
                            !.attempts = Append(pg.attempts, r.attempts),
                            !.errors = r.errors]
    /\ UNCHANGED <<fn, ah, fmt, ld, mx, col, scr, ep, pn, orch>>

\* return pages
ReturnPages ==
    /\ pg.pc = "loop"
    /\ pg.page_num > Len(pg.doc)
    /\ pg' = [pg EXCEPT !.pc = "returned"]
    /\ UNCHANGED <<fn, ah, fmt, ld, mx, col, scr, ep, pn, orch>>

\* MasterExtractor.extract, integration of text boxes and footnotes: the
\* returned list is enumerated from 1 and entry page_num receives the
\* boxes and footnotes whose 'page' is page_num.  Their page numbers come
\* from enumerate(pdf.pages, 1) in the earlier phases; here every page of
\* the PDF has one footnote, named by the number of its page.
IntegratePages ==
    /\ pg.pc = "returned"
    /\ LET footnotes_list == [n \in 1..Len(pg.doc) |-> [marker |-> n, page |-> n]]
       IN  pg' = [pg EXCEPT
                 !.pc = "integrated",
                 !.pages_with_content =
                     [page_num \in 1..Len(pg.pages) |->
                        [page_text |-> pg.pages[page_num],
                         page_footnotes |->
                            SelectSeq(footnotes_list,
                                      LAMBDA f : f.page = page_num)]]]
    /\ UNCHANGED <<fn, ah, fmt, ld, mx, col, scr, ep, pn, orch>>

SpecPages ==
    /\ PgInit
    /\ [][ExtractPageSafe \/ ReturnPages \/ IntegratePages]_vars

\* the cascade the page's outcomes call for: word extraction, then
\* characters, then raw text, stopping at the first that yields text
CascadeFor(page) ==
    IF page.words = "text" THEN <<"extract_words">>
    ELSE IF page.chars = "text" THEN <<"extract_words", "chars">>
    ELSE <<"extract_words", "chars", "extract_text">>

AllStrategiesFail(page) ==
    page.words # "text" /\ page.chars # "text" /\ page.raw # "text"

\* C5: for every processed page whose extraction raised, the recovery
\* strategies were tried in the order words, characters, raw text up to the
\* first that yields text; the page's entry is the extraction-error marker
\* exactly when all three fail, the failure is then in the error list, and
\* once the loop is over every page of the document has an entry.
C5_RecoveryCascade ==
    /\ \A n \in 1..Len(pg.pages) :
          pg.doc[n].extract = "raise" =>
              /\ pg.attempts[n] = CascadeFor(pg.doc[n])
              /\ (pg.pages[n] = "extraction_error_marker")
                    <=> AllStrategiesFail(pg.doc[n])
              /\ AllStrategiesFail(pg.doc[n]) =>
                    \E k \in 1..Len(pg.errors) :
                        /\ pg.errors[k].page_number = n
                        /\ pg.errors[k].severity = "error"
    /\ (pg.pc = "returned") => Len(pg.pages) = Len(pg.doc)

\* the entry the loop gives a page, by what the page's analysis says and by
\* what the extraction calls on it do
EntryOf(page) ==
    IF page.extract = "text" THEN "extracted"
    ELSE IF page.analysis = "scanned" THEN "scanned_page_marker"
    ELSE IF page.extract = "empty" THEN "empty"
    ELSE IF page.words = "text" THEN "recovered_words"
    ELSE IF page.chars = "text" THEN "recovered_chars"
    ELSE IF page.raw = "text" THEN "recovered_raw"
    ELSE "extraction_error_marker"

MaxAnalysedPages == 1

min_words_for_text_page == 10

RECURSIVE AnalyzePages(_, _, _)
AnalyzePages(doc, page_num, errors) ==
    LET \* ErrorHandler._analyze_page: the errors it adds for the page
        _analyze_page(page, page_num_, errors_) ==
            LET words == IF page.extract_words = "raise" THEN 0 ELSE page.word_count
                e1 == IF page.rotation # 0
                      THEN _add_error(errors_, "rotation", "warning", page_num_)
                      ELSE errors_
                e2 == IF page.extract_words = "raise"
                      THEN _add_error(e1, "malformed", "error", page_num_) ELSE e1
                e3 == IF words < min_words_for_text_page
                      THEN _add_error(e2, "scanned", "warning", page_num_) ELSE e2
                e4 == IF words > 0 /\ page.overlapping
                      THEN _add_error(e3, "z_order", "warning", page_num_) ELSE e3
                e5 == IF words > 0 /\ page.encoding_errors
                      THEN _add_error(e4, "encoding", "warning", page_num_) ELSE e4
            IN  IF words = 0 THEN _add_error(e5, "empty_page", "info", page_num_)
                ELSE e5
    IN
    IF page_num > Len(doc) THEN errors
    ELSE AnalyzePages(doc, page_num + 1,
                      _analyze_page(doc[page_num], page_num, errors))

\* ErrorHandler.analyze_pdf: self.errors afterwards
analyze_pdf(openable, doc) ==
    IF openable THEN AnalyzePages(doc, 1, <<>>)
    ELSE _add_error(<<>>, "corruption", "critical", 0)

\* ErrorHandler._generate_report
_generate_report(errors) ==
    [present |-> TRUE, total_errors |-> Len(errors),
     critical |-> Cardinality({k \in 1..Len(errors) :
                                  errors[k].severity = "critical"})]

MxInit ==
    LET AnalysedPages ==
            [rotation : {0, 90}, extract_words : {"raise"}, word_count : {0},
             overlapping : {FALSE}, encoding_errors : {FALSE}]
            \cup
            [rotation : {0, 90}, extract_words : {"ok"}, word_count : {0},
             overlapping : {FALSE}, encoding_errors : {FALSE}]
            \cup
            [rotation : {0, 90}, extract_words : {"ok"}, word_count : {5, 20},
             overlapping : BOOLEAN, encoding_errors : BOOLEAN]
    IN
    /\ \E openable \in BOOLEAN :
         \E doc \in (IF openable THEN SeqsUpTo(AnalysedPages, MaxAnalysedPages)
                     ELSE {<<>>}) :
           mx \in [pc : {"start"},
                   entry : {"SafeExtractor.extract_safe",
                            "MasterExtractor.extract"},
                   openable : {openable},
                   doc : {doc},
                   extraction_raises : BOOLEAN,
                   errors : {<<>>},
                   outcome : {"running"},
                   text : {"none"},
                   report : {[present |-> FALSE, total_errors |-> 0,
                             critical |-> 0]}]
    /\ fn = Off /\ ah = Off /\ fmt = Off /\ ld = Off /\ pg = Off
    /\ col = Off /\ scr = Off /\ ep = Off /\ pn = Off /\ orch = Off

\* error_handler.analyze_pdf(pdf_path), the first step of both entry points
AnalyzePdf ==
    /\ mx.pc = "start"
    /\ mx' = [mx EXCEPT !.pc = "analyzed",
                        !.errors = analyze_pdf(mx.openable, mx.doc)]
    /\ UNCHANGED <<fn, ah, fmt, ld, pg, col, scr, ep, pn, orch>>

\* SafeExtractor.extract_safe after the analysis: extract_pdf inside try
ExtractSafe ==
    /\ mx.pc = "analyzed"
    /\ mx.entry = "SafeExtractor.extract_safe"
    /\ IF ~mx.openable \/ mx.extraction_raises
       THEN LET errors == _add_error(mx.errors, "corruption", "critical", 0)
            IN  mx' = [mx EXCEPT !.pc = "done", !.outcome = "returned",
                                 !.errors = errors,
                                 !.text = "extraction_failed_marker",
                                 !.report = _generate_report(errors)]
       ELSE mx' = [mx EXCEPT !.pc = "done", !.outcome = "returned",
                             !.text = "text",
                             !.report = _generate_report(mx.errors)]
    /\ UNCHANGED <<fn, ah, fmt, ld, pg, col, scr, ep, pn, orch>>

\* MasterExtractor.extract, line 205: inventory_analyzer.analyze_pdf opens
\* the PDF again, outside any try
MasterInventory ==
    /\ mx.pc = "analyzed"
    /\ mx.entry = "MasterExtractor.extract"
    /\ IF mx.openable
       THEN mx' = [mx EXCEPT !.pc = "phases"]
       ELSE mx' = [mx EXCEPT !.pc = "done", !.outcome = "raised"]
    /\ UNCHANGED <<fn, ah, fmt, ld, pg, col, scr, ep, pn, orch>>

\* MasterExtractor.extract, the remaining phases: none of them is inside a
\* try, so an exception in one leaves extract
MasterPhases ==
    /\ mx.pc = "phases"
    /\ IF mx.extraction_raises
       THEN mx' = [mx EXCEPT !.pc = "done", !.outcome = "raised"]
       ELSE mx' = [mx EXCEPT !.pc = "done", !.outcome = "returned",
                             !.text = "text",
                             !.report = _generate_report(mx.errors)]
    /\ UNCHANGED <<fn, ah, fmt, ld, pg, col, scr, ep, pn, orch>>

SpecDocument ==
    /\ MxInit
    /\ [][\/ AnalyzePdf
         \/ ExtractSafe
         \/ MasterInventory
         \/ MasterPhases]_vars

HasCriticalError ==
    \E k \in 1..Len(mx.errors) : mx.errors[k].severity = "critical"

\* C6: when a CRITICAL error was recorded for the document, its extraction
\* ends by returning the failure string with the error report, and no
\* exception leaves the entry point.
C6_CriticalGivesFailureString ==
    (mx.pc = "done" /\ HasCriticalError) =>
        /\ mx.outcome = "returned"
        /\ mx.text = "extraction_failed_marker"
        /\ mx.report.present

(***************************************************************************)
(* Word boxes (extractor.py).  A box is a pdfplumber word: its text and    *)
(* its x0, x1, top, bottom and font size, in whole points.                 *)
(***************************************************************************)
Box(text, x0, x1, top, bottom, size) ==
    [text |-> text, x0 |-> x0, x1 |-> x1, top |-> top, bottom |-> bottom,
     size |-> size]

\* sorted(s, key=...): keys[i] is the key of s[i], a tuple of numbers that
\* Python compares position by position; the sort is stable, so boxes with
\* equal keys keep their order in s
StableSort(s, keys) ==
    LET Less(i, j) ==
            \E n \in 1..Len(keys[i]) :
                /\ \A m \in 1..(n - 1) : keys[i][m] = keys[j][m]
                /\ keys[i][n] < keys[j][n]
        before(i) == Cardinality({j \in 1..Len(s) :
                        \/ Less(j, i)
                        \/ (~Less(i, j) /\ j < i)})
    IN  [k \in 1..Len(s) |-> s[CHOOSE i \in 1..Len(s) : before(i) = k - 1]]

\* the orderings of a list of n boxes
Orderings(n) ==
    {p \in [1..n -> 1..n] : \A i, j \in 1..n : i # j => p[i] # p[j]}

Reordered(s, p) == [i \in 1..Len(s) |-> s[p[i]]]

(***************************************************************************)
(* Column detection (extractor.py _detect_columns).                        *)
(***************************************************************************)
COLUMN_GAP_THRESHOLD == 50

\* key=lambda w: w['x0'], for each box of the list
ByX0(words) == [i \in 1..Len(words) |-> <<words[i].x0>>]

\* the loop of _detect_columns over sorted_words[i..]: columns holds the
\* closed columns, current_column the open one
RECURSIVE ColumnLoop(_, _, _, _)
ColumnLoop(sorted_words, i, columns, current_column) ==
    IF i > Len(sorted_words) THEN Append(columns, current_column)
    ELSE LET prev == sorted_words[i - 1]
             curr == sorted_words[i]
             gap == curr.x0 - prev.x1
         IN  IF gap > COLUMN_GAP_THRESHOLD
             THEN ColumnLoop(sorted_words, i + 1,
                             Append(columns, current_column), <<curr>>)
             ELSE ColumnLoop(sorted_words, i + 1, columns,
                             Append(current_column, curr))

_detect_columns(words) ==
    IF words = <<>> THEN <<>>
    ELSE LET sorted_words == StableSort(words, ByX0(words))
         IN  ColumnLoop(sorted_words, 2, <<>>, <<sorted_words[1]>>)

MaxColumnBoxes == 3

ColInit ==
    LET ColumnBoxes ==
            { Box(<<"A">>, 0, 10, 0, 10, 10), Box(<<"B">>, 0, 100, 20, 30, 10),
              Box(<<"C">>, 70, 80, 0, 10, 10), Box(<<"D">>, 200, 210, 0, 10, 10) }
    IN
    /\ \E words \in SeqsUpTo(ColumnBoxes, MaxColumnBoxes) :
         \E p \in Orderings(Len(words)) :
           col = [pc |-> "ready", words |-> words,
                  reordered |-> Reordered(words, p),
                  columns |-> <<>>, columns_reordered |-> <<>>]
    /\ fn = Off /\ ah = Off /\ fmt = Off /\ ld = Off /\ pg = Off
    /\ mx = Off /\ scr = Off /\ ep = Off /\ pn = Off /\ orch = Off

\* _detect_columns on the box list
DetectColumns ==
    /\ col.pc = "ready"
    /\ col' = [col EXCEPT !.pc = "first",
                          !.columns = _detect_columns(col.words)]
    /\ UNCHANGED <<fn, ah, fmt, ld, pg, mx, scr, ep, pn, orch>>

\* _detect_columns on the same boxes in the other order
DetectColumnsReordered ==
    /\ col.pc = "first"
    /\ col' = [col EXCEPT !.pc = "both",
                  !.columns_reordered = _detect_columns(col.reordered)]
    /\ UNCHANGED <<fn, ah, fmt, ld, pg, mx, scr, ep, pn, orch>>

SpecColumns ==
    /\ ColInit
    /\ [][DetectColumns \/ DetectColumnsReordered]_vars

\* the boxes of a column, each with the number of times it occurs
BoxCount(column, b) == Cardinality({k \in 1..Len(column) : column[k] = b})

SameBoxes(c1, c2) ==
    \A b \in Range(c1) \cup Range(c2) : BoxCount(c1, b) = BoxCount(c2, b)

\* C7: _detect_columns returns the same columns for every ordering of the
\* same collection of boxes: as many columns, and the k-th column from the
\* left holds the same boxes.
C7_ColumnsOrderInvariant ==
    (col.pc = "both") =>
        /\ Len(col.columns_reordered) = Len(col.columns)
        /\ \A k \in 1..Len(col.columns) :
              SameBoxes(col.columns_reordered[k], col.columns[k])

(***************************************************************************)
(* Script attachment (extractor.py _integrate_super_subscripts,            *)
(* _group_into_horizontal_bands, _attach_scripts_in_band).  The average    *)
(* size is kept as the pair (sum of sizes, number of boxes), so that       *)
(* size >= avg_size * 0.7 is 10 * size * n >= 7 * sum.                     *)
(***************************************************************************)
_to_superscript(text) ==
    LET script(c) ==
            CASE c = "0" -> "u2070" [] c = "1" -> "u00B9" [] c = "2" -> "u00B2"
              [] c = "3" -> "u00B3" [] c = "4" -> "u2074" [] c = "5" -> "u2075"
              [] c = "6" -> "u2076" [] c = "7" -> "u2077" [] c = "8" -> "u2078"
              [] c = "9" -> "u2079" [] c = "+" -> "u207A" [] c = "-" -> "u207B"
              [] c = "=" -> "u207C" [] c = "(" -> "u207D" [] c = ")" -> "u207E"
              [] c = "n" -> "u207F" [] c = "i" -> "u2071" [] OTHER -> c
    IN  [k \in 1..Len(text) |-> script(text[k])]

_to_subscript(text) ==
    LET script(c) ==
            CASE c = "0" -> "u2080" [] c = "1" -> "u2081" [] c = "2" -> "u2082"
              [] c = "3" -> "u2083" [] c = "4" -> "u2084" [] c = "5" -> "u2085"
              [] c = "6" -> "u2086" [] c = "7" -> "u2087" [] c = "8" -> "u2088"
              [] c = "9" -> "u2089" [] c = "+" -> "u208A" [] c = "-" -> "u208B"
              [] c = "=" -> "u208C" [] c = "(" -> "u208D" [] c = ")" -> "u208E"
              [] c = "a" -> "u2090" [] c = "e" -> "u2091" [] c = "o" -> "u2092"
              [] c = "x" -> "u2093" [] OTHER -> c
    IN  [k \in 1..Len(text) |-> script(text[k])]

\* size >= avg_size * 0.7
IsNormalSize(size, avg_size) == 10 * size * avg_size.n >= 7 * avg_size.sum

band_tolerance == 15

\* the loop of _group_into_horizontal_bands over words[i..]
RECURSIVE BandLoop(_, _, _, _, _)
BandLoop(words, i, bands, current_band, current_y) ==
    IF i > Len(words) THEN Append(bands, current_band)
    ELSE LET d == words[i].top - current_y
         IN  IF (IF d < 0 THEN -d ELSE d) <= band_tolerance
             THEN BandLoop(words, i + 1, bands,
                           Append(current_band, words[i]), current_y)
             ELSE BandLoop(words, i + 1, Append(bands, current_band),
                           <<words[i]>>, words[i].top)

_group_into_horizontal_bands(words) ==
    IF words = <<>> THEN <<>>
    ELSE BandLoop(words, 2, <<>>, <<words[1]>>, words[1].top)

\* the while loop of _attach_scripts_in_band: from band[j] on, the small
\* boxes less than 5 points right of the (growing) base box are consumed
RECURSIVE ConsumeScripts(_, _, _, _, _)
ConsumeScripts(band, word, j, combined_text, avg_size) ==
    IF j > Len(band)
    THEN [word |-> word, text |-> combined_text, j |-> j]
    ELSE LET next_word == band[j]
             gap == next_word.x0 - word.x1
         IN  IF ~IsNormalSize(next_word.size, avg_size) /\ gap < 5
             THEN LET added ==
                          IF 2 * next_word.bottom < word.top + word.bottom
                          THEN _to_superscript(next_word.text)
                          ELSE IF 2 * next_word.top > word.top + word.bottom
                          THEN _to_subscript(next_word.text)
                          ELSE next_word.text
                  IN  ConsumeScripts(band,
                        [word EXCEPT !.x1 = IF word.x1 >= next_word.x1
                                            THEN word.x1 ELSE next_word.x1],
                        j + 1, combined_text \o added, avg_size)
             ELSE [word |-> word, text |-> combined_text, j |-> j]

\* the for loop of _attach_scripts_in_band
RECURSIVE AttachLoop(_, _, _, _, _)
AttachLoop(band, i, skip_indices, result, avg_size) ==
    IF i > Len(band) THEN result
    ELSE IF i \in skip_indices
    THEN AttachLoop(band, i + 1, skip_indices, result, avg_size)
    ELSE IF IsNormalSize(band[i].size, avg_size)
    THEN LET c == ConsumeScripts(band, band[i], i + 1, band[i].text, avg_size)
         IN  AttachLoop(band, i + 1, skip_indices \cup ((i + 1)..(c.j - 1)),
                        Append(result, [c.word EXCEPT !.text = c.text]),
                        avg_size)
    ELSE AttachLoop(band, i + 1, skip_indices, Append(result, band[i]),
                    avg_size)

\* the small boxes dropped instead of merged
AttachScriptsDroppingSmall(band, avg_size) ==
    SelectSeq(band, LAMBDA w : IsNormalSize(w.size, avg_size))

_attach_scripts_in_band(band, avg_size) ==
    IF Len(band) <= 1 THEN band
    ELSE AttachLoop(band, 1, {}, <<>>, avg_size)

\* key=lambda w: (w['top'], w['x0']), for each box of the list
ByTopX0(words) == [i \in 1..Len(words) |-> <<words[i].top, words[i].x0>>]

\* the sort by position left out
SortByPositionSkipped(words) == words

\* sorted(words, key=lambda w: (w['top'], w['x0']))
SortByPosition(words) == StableSort(words, ByTopX0(words))

\* the bands of the page, each sorted by x0 and with its scripts attached
ProcessedBands(words) ==
    LET RECURSIVE SumSizes(_)
        SumSizes(words_) ==
            IF words_ = <<>> THEN 0 ELSE words_[1].size + SumSizes(Tail(words_))
    IN
    LET bands == _group_into_horizontal_bands(SortByPosition(words))
    IN  [k \in 1..Len(bands) |->
            _attach_scripts_in_band(StableSort(bands[k], ByX0(bands[k])),
                                    \* avg_size as (sum of sizes, count)
                                    [sum |-> SumSizes(words), n |-> Len(words)])]

_integrate_super_subscripts(words) ==
    LET RECURSIVE Flatten(_)
        Flatten(lists) ==
            IF lists = <<>> THEN <<>> ELSE lists[1] \o Flatten(Tail(lists))
    IN
    IF Len(words) < 2 THEN words ELSE Flatten(ProcessedBands(words))

MaxScriptBoxes == 3

ScrInit ==
    LET \* a line at the top with base boxes H and K (same corner), a box E at the
        \* edge of the band tolerance, and small boxes placed as superscript and
        \* subscript right of H; a second line further down with C and x
        ScriptBoxes ==
            { Box(<<"H">>, 0, 10, 0, 10, 10), Box(<<"K">>, 0, 8, 0, 10, 10),
              Box(<<"2">>, 11, 14, 0, 4, 5), Box(<<"2">>, 11, 14, 6, 10, 5),
              Box(<<"n">>, 15, 18, 0, 4, 5), Box(<<"E">>, 30, 40, 15, 25, 10),
              Box(<<"C">>, 0, 10, 100, 110, 10), Box(<<"x">>, 11, 14, 106, 110, 5) }
    IN
    /\ \E words \in SeqsUpTo(ScriptBoxes, MaxScriptBoxes) :
         \E p \in Orderings(Len(words)) :
           scr = [pc |-> "ready", words |-> words,
                  reordered |-> Reordered(words, p),
                  bands |-> <<>>, result |-> <<>>,
                  bands_reordered |-> <<>>, result_reordered |-> <<>>]
    /\ fn = Off /\ ah = Off /\ fmt = Off /\ ld = Off /\ pg = Off
    /\ mx = Off /\ col = Off /\ ep = Off /\ pn = Off /\ orch = Off

\* _integrate_super_subscripts on the box list
IntegrateScripts ==
    /\ scr.pc = "ready"
    /\ scr' = [scr EXCEPT
          !.pc = "first",
          !.bands = ProcessedBands(scr.words),
          !.result = _integrate_super_subscripts(scr.words)]
    /\ UNCHANGED <<fn, ah, fmt, ld, pg, mx, col, ep, pn, orch>>

\* _integrate_super_subscripts on the same boxes in the other order
IntegrateScriptsReordered ==
    /\ scr.pc = "first"
    /\ scr' = [scr EXCEPT
          !.pc = "both",
          !.bands_reordered = ProcessedBands(scr.reordered),
          !.result_reordered = _integrate_super_subscripts(scr.reordered)]
    /\ UNCHANGED <<fn, ah, fmt, ld, pg, mx, col, ep, pn, orch>>

SpecScripts ==
    /\ ScrInit
    /\ [][IntegrateScripts \/ IntegrateScriptsReordered]_vars

\* the input boxes that make up the k-th band
BandMembers(k) ==
    Range(_group_into_horizontal_bands(SortByPosition(scr.words))[k])

\* the two input lists hold the boxes of band k in the same order: they
\* differ only in where the boxes of other bands stand
OnlyOtherBandsReordered(k) ==
    LET members == BandMembers(k)
    IN  SelectSeq(scr.words, LAMBDA b : b \in members)
            = SelectSeq(scr.reordered, LAMBDA b : b \in members)

BandTexts(band) == [i \in 1..Len(band) |-> band[i].text]

\* C8: reordering the boxes of other bands in the input list does not
\* change the merged box texts that script attachment produces for a band.
C8_BandTextsOrderIndependent ==
    (scr.pc = "both") =>
        \A k \in 1..Len(scr.bands) :
            OnlyOtherBandsReordered(k) =>
                /\ k <= Len(scr.bands_reordered)
                /\ BandTexts(scr.bands_reordered[k]) = BandTexts(scr.bands[k])

\* a page of two bands given in two different orders, where a band whose
\* own boxes kept their order had a script merged into a base box
C8_Witness ==
    /\ scr.pc = "both"
    /\ scr.reordered # scr.words
    /\ Len(scr.bands) >= 2
    /\ \E k \in 1..Len(scr.bands) :
          /\ OnlyOtherBandsReordered(k)
          /\ \E i \in 1..Len(scr.bands[k]) : Len(scr.bands[k][i].text) > 1

\* C26: after script attachment every input box is accounted for exactly
\* once: it is present as its own box in the output, or its text (mapped to
\* superscript or subscript characters) has been appended to exactly one
\* base box and it is absent from the output; no box is dropped without
\* being merged and no box or text appears twice.
\*
\* text[pos..] is made of the texts of the boxes `consumed`, each once, in
\* some order, each as the code appends it
RECURSIVE AppendedTexts(_, _, _)
AppendedTexts(text, pos, consumed) ==
    IF consumed = {} THEN pos = Len(text) + 1
    ELSE \E i \in consumed :
            \E added \in {_to_superscript(scr.words[i].text),
                          _to_subscript(scr.words[i].text),
                          scr.words[i].text} :
                /\ pos + Len(added) - 1 <= Len(text)
                /\ SubSeq(text, pos, pos + Len(added) - 1) = added
                /\ AppendedTexts(text, pos + Len(added), consumed \ {i})

\* input box b is output box k with the texts of `consumed` appended
OwnBoxWith(b, k, consumed) ==
    LET in == scr.words[b]
        out == scr.result[k]
    IN  /\ out.x0 = in.x0 /\ out.top = in.top /\ out.bottom = in.bottom
        /\ out.size = in.size
        /\ Len(out.text) >= Len(in.text)
        /\ SubSeq(out.text, 1, Len(in.text)) = in.text
        /\ AppendedTexts(out.text, Len(in.text) + 1, consumed)
        /\ consumed = {} => out = in

C26_EveryBoxAccountedForOnce ==
    scr.pc \in {"first", "both"} =>
        \E place \in [1..Len(scr.words) -> 1..Len(scr.result)] :
            \A k \in 1..Len(scr.result) :
                LET group == {i \in 1..Len(scr.words) : place[i] = k}
                IN  \E b \in group : OwnBoxWith(b, k, group \ {b})

\* three boxes in, two out: a base box with a superscript merged into it
\* and a second base box kept as it was
C26_Witness ==
    /\ scr.pc = "first"
    /\ Len(scr.words) = 3
    /\ Len(scr.result) = 2
    /\ \E k \in 1..2 : scr.result[k].text = <<"H", "u00B2">>
    /\ \E k \in 1..2 : scr.result[k] \in Range(scr.words)

(***************************************************************************)
(* Page-number detection (extractor.py _is_page_number_not_content,        *)
(* _has_nearby_content).  Centres are kept doubled, (x0 + x1, top +        *)
(* bottom), so that the Euclidean distance test dist < distance is         *)
(* dx2^2 + dy2^2 < 4 * distance^2; fractions of the page size are compared *)
(* after multiplying out.                                                  *)
(***************************************************************************)
\* other_word is farther than distance from word, or exactly that far
BeyondDistance(word, other_word, distance) ==
    LET dx2 == (word.x0 + word.x1) - (other_word.x0 + other_word.x1)
        dy2 == (word.top + word.bottom) - (other_word.top + other_word.bottom)
    IN  dx2 * dx2 + dy2 * dy2 >= 4 * distance * distance

\* dist < distance
WithinDistance(word, other_word, distance) ==
    LET dx2 == (word.x0 + word.x1) - (other_word.x0 + other_word.x1)
        dy2 == (word.top + word.bottom) - (other_word.top + other_word.bottom)
    IN  dx2 * dx2 + dy2 * dy2 < 4 * distance * distance

\* the loop of _has_nearby_content over all_words[k..]
RECURSIVE NearbyLoop(_, _, _, _, _)
NearbyLoop(word, all_words, distance, k, nearby_count) ==
    IF k > Len(all_words) THEN nearby_count > 0
    ELSE IF all_words[k] = word
    THEN NearbyLoop(word, all_words, distance, k + 1, nearby_count)
    ELSE IF WithinDistance(word, all_words[k], distance)
    THEN IF nearby_count + 1 >= 2 THEN TRUE
         ELSE NearbyLoop(word, all_words, distance, k + 1, nearby_count + 1)
    ELSE NearbyLoop(word, all_words, distance, k + 1, nearby_count)

nearby_distance == 50

_is_page_number_not_content(word, page_height, page_width, all_words) ==
    LET _has_nearby_content(word_, all_words_, distance) ==
            NearbyLoop(word_, all_words_, distance, 1, 0)
    IN
    LET in_top_margin == 10 * word.top < page_height
        in_bottom_margin == 10 * word.top > 9 * page_height
        centre_offset2 == (word.x0 + word.x1) - page_width
        is_centered == 5 * (IF centre_offset2 < 0 THEN -centre_offset2
                            ELSE centre_offset2) < 2 * page_width
        in_left_corner == 5 * word.x0 < page_width
        in_right_corner == 5 * word.x1 > 4 * page_width
    IN  IF ~(in_top_margin \/ in_bottom_margin) THEN FALSE
        ELSE IF _has_nearby_content(word, all_words, nearby_distance)
        THEN FALSE
        ELSE IF (in_top_margin \/ in_bottom_margin)
                 /\ (is_centered \/ in_left_corner \/ in_right_corner)
        THEN TRUE
        ELSE FALSE

MaxPageBoxes == 3

PageSizes == {[height |-> 800, width |-> 600]}

PnInit ==
    LET \* boxes in the top margin (left corner, off centre, centred), one in the
        \* body and one in the bottom right corner; some lie less than 50 points
        \* apart, DigitBox(40, 20) and DigitBox(10, 60) exactly 50
        PageBoxes ==
            LET \* a digit box of 20 x 10 points with its corner at (x0, top)
                DigitBox(x0, top) == Box(<<"1">>, x0, x0 + 20, top, top + 10, 10)
            IN
            { DigitBox(10, 20), DigitBox(40, 20), DigitBox(10, 60),
              DigitBox(130, 20), DigitBox(290, 20), DigitBox(310, 30),
              DigitBox(270, 30), DigitBox(290, 400), DigitBox(560, 770) }
    IN
    /\ \E all_words \in SeqsUpTo(PageBoxes, MaxPageBoxes) :
         \E i \in 1..Len(all_words) :
           \E page \in PageSizes :
             pn = [pc |-> "ready", page |-> page, all_words |-> all_words,
                   i |-> i, result |-> FALSE]
    /\ fn = Off /\ ah = Off /\ fmt = Off /\ ld = Off /\ pg = Off
    /\ mx = Off /\ col = Off /\ scr = Off /\ ep = Off /\ orch = Off

\* _is_page_number_not_content on the i-th box of the page
IsPageNumber ==
    /\ pn.pc = "ready"
    /\ pn' = [pn EXCEPT
          !.pc = "done",
          !.result = _is_page_number_not_content(pn.all_words[pn.i],
                        pn.page.height, pn.page.width, pn.all_words)]
    /\ UNCHANGED <<fn, ah, fmt, ld, pg, mx, col, scr, ep, orch>>

SpecPageNumber ==
    /\ PnInit
    /\ [][IsPageNumber]_vars

\* the boxes of the page other than the candidate (the code tells boxes
\* apart by value) whose centre is less than 50 points from its centre
OtherBoxesWithin50 ==
    LET word == pn.all_words[pn.i]
    IN  {k \in 1..Len(pn.all_words) :
            /\ pn.all_words[k] # word
            /\ LET other == pn.all_words[k]
                   dx2 == (other.x0 + other.x1) - (word.x0 + word.x1)
                   dy2 == (other.top + other.bottom) - (word.top + word.bottom)
               IN  dx2 * dx2 + dy2 * dy2 < 4 * 50 * 50}

InMarginAndPlaced ==
    LET word == pn.all_words[pn.i]
    IN  /\ (10 * word.top < pn.page.height
            \/ 10 * word.top > 9 * pn.page.height)
        /\ (5 * word.x0 < pn.page.width
            \/ 5 * word.x1 > 4 * pn.page.width
            \/ (2 * pn.page.width > 5 * ((word.x0 + word.x1) - pn.page.width)
                /\ 2 * pn.page.width
                     > 5 * (pn.page.width - (word.x0 + word.x1))))

\* C10: _is_page_number_not_content returns False for every candidate digit
\* box that has 2 or more other boxes within 50 units of it, wherever the
\* box lies on the page.
C10_NearbyBoxesKeepDigit ==
    (pn.pc = "done" /\ Cardinality(OtherBoxesWithin50) >= 2) =>
        pn.result = FALSE

\* a digit box in a margin, centred or in a corner, that is kept because
\* two other boxes lie within 50 units of it
C10_Witness ==
    /\ pn.pc = "done"
    /\ Cardinality(OtherBoxesWithin50) >= 2
    /\ InMarginAndPlaced
    /\ pn.result = FALSE

\* C11: _is_page_number_not_content classifies a digit box as a page number
\* when, and only when, it lies in the top or bottom 10% band, fewer than 2
\* other boxes lie within 50 units of it, and it is centred or in a corner.
C11_PageNumberIffThreeConditions ==
    (pn.pc = "done") =>
        (pn.result = TRUE <=>
            (InMarginAndPlaced /\ Cardinality(OtherBoxesWithin50) < 2))

(***************************************************************************)
(* Metadata filter (extractor.py _filter_metadata, _is_section_number).    *)
(* Characters outside ASCII are written as their code points.              *)
(***************************************************************************)
SectionUnits == {"u7AE0", "u6761", "u9805", "u7BC0", "u6B3E", "u76EE"}

KanjiNumerals ==
    {"u4E00", "u4E8C", "u4E09", "u56DB", "u4E94", "u516D", "u4E03", "u516B",
     "u4E5D", "u5341"}

\* self.section_patterns
section_patterns ==
    LET CircledNumbers ==
            {"u2460", "u2461", "u2462", "u2463", "u2464", "u2465", "u2466", "u2467",
             "u2468", "u2469", "u246A", "u246B", "u246C", "u246D", "u246E", "u246F",
             "u2470", "u2471", "u2472", "u2473"}
    IN
    LET Opt(r) == Alt(<<r, Cat(<<>>)>>)
    IN
    << Cat(<<Bol, Plus(In(Digits)), Lit("."), Plus(In(Digits))>>),
       Cat(<<Bol, Lit("("), Plus(In(Digits)), Lit(")")>>),
       Cat(<<Bol, In(CircledNumbers)>>),
       Cat(<<Bol, Plus(In(Digits)), In({")", "uFF09"})>>),
       Cat(<<Bol, Opt(Lit("u7B2C")), Plus(In(Digits)), In(SectionUnits)>>),
       Cat(<<Bol, Plus(In(Digits)), Lit(".")>>),
       Cat(<<Bol, Plus(In(KanjiNumerals)), In({"u3001", "."})>>) >>

\* self.footnote_markers
footnote_markers ==
    << Cat(<<Bol, Lit("*"), Plus(In(Digits))>>),
       Cat(<<Bol, Lit("kome"), Star(In(Digits))>>),
       Cat(<<Bol, Lit("chu"), Star(In(Digits))>>),
       Cat(<<Bol, Lit("dagger")>>),
       Cat(<<Bol, Lit("ddagger")>>),
       Cat(<<Bol, Lit("["), Plus(In(Digits)), Lit("]")>>),
       Cat(<<Bol, Lit("("), Lit("*"), Plus(In(Digits)), Lit(")")>>) >>

\* self.strict_page_patterns
strict_page_patterns ==
    << Cat(<<Bol, Lit("P"), Lit("a"), Lit("g"), Lit("e"),
             Plus(In(Whitespace)), Plus(In(Digits)), Eol>>),
       Cat(<<Bol, Lit("u30DA"), Lit("u30FC"), Lit("u30B8"),
             Star(In(Whitespace)), Plus(In(Digits)), Eol>>),
       Cat(<<Bol, Lit("-"), Star(In(Whitespace)), Plus(In(Digits)),
             Star(In(Whitespace)), Lit("-"), Eol>>),
       Cat(<<Bol, Plus(In(Digits)), Star(In(Whitespace)), Lit("/"),
             Star(In(Whitespace)), Plus(In(Digits)), Eol>>),
       Cat(<<Bol, Lit("p"), Lit("."), Star(In(Whitespace)),
             Plus(In(Digits)), Eol>>),
       Cat(<<Bol, Lit("P"), Lit("."), Star(In(Whitespace)),
             Plus(In(Digits)), Eol>>) >>

\* re.match(pattern, text) is not None for one of the patterns
MatchesAny(patterns, text, ic) ==
    \E k \in 1..Len(patterns) : Ends(patterns[k], text, 1, ic) # {}

_is_section_number(text) == MatchesAny(section_patterns, text, FALSE)

REMOVE_HEADERS_FOOTERS == TRUE
REMOVE_PAGE_NUMBERS == TRUE

\* the loop body with the header/footer rule tried before the keep rules
FilterDecisionHeadersFirst(word, words, headers, footers, page_height, page_width) ==
    LET text == strip(word.text)
    IN  IF text = <<>> THEN [rule |-> "empty", keep |-> FALSE]
        ELSE IF text \in Range(headers) \/ text \in Range(footers)
        THEN [rule |-> "header_footer", keep |-> FALSE]
        ELSE IF _is_section_number(text)
                \/ MatchesAny(footnote_markers, text, FALSE)
        THEN [rule |-> "section_number", keep |-> TRUE]
        ELSE IF MatchesAny(strict_page_patterns, text, TRUE)
        THEN [rule |-> "strict_page_pattern", keep |-> FALSE]
        ELSE IF /\ \A k \in 1..Len(text) : text[k] \in Digits
                /\ Len(text) <= 3
                /\ _is_page_number_not_content(word, page_height, page_width,
                                               words)
        THEN [rule |-> "page_number", keep |-> FALSE]
        ELSE [rule |-> "default", keep |-> TRUE]

\* the decision of the loop body of _filter_metadata for one box: the rule
\* that decides and whether the box is kept
FilterDecision(word, words, headers, footers, page_height, page_width) ==
    LET text == strip(word.text)
        \* re.match(r'^\d+$', text) and len(text) <= 3
        IsShortNumber(t) ==
            /\ t # <<>>
            /\ \A k \in 1..Len(t) : t[k] \in Digits
            /\ Len(t) <= 3
    IN  IF text = <<>> THEN [rule |-> "empty", keep |-> FALSE]
        ELSE IF _is_section_number(text)
        THEN [rule |-> "section_number", keep |-> TRUE]
        ELSE IF MatchesAny(footnote_markers, text, FALSE)
        THEN [rule |-> "footnote_marker", keep |-> TRUE]
        ELSE IF REMOVE_PAGE_NUMBERS
                /\ MatchesAny(strict_page_patterns, text, TRUE)
        THEN [rule |-> "strict_page_pattern", keep |-> FALSE]
        ELSE IF REMOVE_HEADERS_FOOTERS
                /\ (text \in Range(headers) \/ text \in Range(footers))
        THEN [rule |-> "header_footer", keep |-> FALSE]
        ELSE IF IsShortNumber(text)
                /\ _is_page_number_not_content(word, page_height, page_width,
                                               words)
        THEN [rule |-> "page_number", keep |-> FALSE]
        ELSE [rule |-> "default", keep |-> TRUE]

_filter_metadata(words, headers, footers, page_height, page_width) ==
    SelectSeq(words,
              LAMBDA word : FilterDecision(word, words, headers, footers,
                                           page_height, page_width).keep)

(***************************************************************************)
(* Table exclusion (extractor.py _exclude_table_words).                    *)
(***************************************************************************)
_exclude_table_words(words, table_regions) ==
    LET InRegion(word, region) ==
            /\ 2 * region.x0 <= word.x0 + word.x1
            /\ word.x0 + word.x1 <= 2 * region.x1
            /\ 2 * region.top <= word.top + word.bottom
            /\ word.top + word.bottom <= 2 * region.bottom
    IN  SelectSeq(words,
                  LAMBDA word : ~\E k \in 1..Len(table_regions) :
                                    InRegion(word, table_regions[k]))

(***************************************************************************)
(* Line grouping and spacing (extractor.py _extract_column,                *)
(* _join_words_with_spacing, _should_add_space, _is_japanese_char).        *)
(***************************************************************************)
LINE_HEIGHT_THRESHOLD == 15

\* the characters of the model's alphabet in the ranges of
\* _is_japanese_char (hiragana, katakana, CJK)
_is_japanese_char(char) ==
    /\ char # ""
    /\ char \in SectionUnits \cup KanjiNumerals
           \cup {"chu", "u7B2C", "u30DA", "u30FC", "u30B8", "u3042", "u3044"}

\* the empty string is "in" every string
_should_add_space(prev_char, curr_char, gap) ==
    LET prev_is_jp == _is_japanese_char(prev_char)
        curr_is_jp == _is_japanese_char(curr_char)
        prev_is_punct ==
            \/ prev_char = ""
            \/ prev_char \in
                 {"u3002", "u3001", "uFF01", "uFF1F", "uFF09", "u3011",
                  "u300D", "u300F", "fwcolon", "uFF1B", ",", ".", "!", "?",
                  ")", "]", ">", "dquote", "'"}
        curr_is_punct ==
            \/ curr_char = ""
            \/ curr_char \in
                 {"u3002", "u3001", "uFF01", "uFF1F", "uFF08", "u3010",
                  "u300C", "u300E", "fwcolon", "uFF1B", ",", ".", "!", "?",
                  "(", "[", "<", "dquote", "'"}
    IN  IF gap < 2 THEN FALSE
        ELSE IF prev_is_jp /\ curr_is_jp THEN gap > 10
        ELSE IF prev_is_punct \/ curr_is_punct THEN FALSE
        ELSE gap > 3

RECURSIVE JoinLoop(_, _, _)
JoinLoop(words, i, result) ==
    IF i > Len(words) THEN result
    ELSE LET prev_word == words[i - 1]
             curr_word == words[i]
             gap == curr_word.x0 - prev_word.x1
             prev_char == IF prev_word.text # <<>>
                          THEN prev_word.text[Len(prev_word.text)] ELSE ""
             curr_char == IF curr_word.text # <<>>
                          THEN curr_word.text[1] ELSE ""
         IN  JoinLoop(words, i + 1,
                      result
                        \o (IF _should_add_space(prev_char, curr_char, gap)
                            THEN <<" ">> ELSE <<>>)
                        \o curr_word.text)

_join_words_with_spacing(words) ==
    IF words = <<>> THEN <<>>
    ELSE JoinLoop(words, 2, words[1].text)

\* the line loop of _extract_column over sorted_words[i..]
RECURSIVE LineLoop(_, _, _, _)
LineLoop(sorted_words, i, lines, current_line) ==
    IF i > Len(sorted_words) THEN Append(lines, current_line)
    ELSE LET d == sorted_words[i].top - current_line[Len(current_line)].top
             y_dist == IF d < 0 THEN -d ELSE d
         IN  IF y_dist < LINE_HEIGHT_THRESHOLD
             THEN LineLoop(sorted_words, i + 1, lines,
                           Append(current_line, sorted_words[i]))
             ELSE LineLoop(sorted_words, i + 1, Append(lines, current_line),
                           <<sorted_words[i]>>)

\* the lines of a column, each sorted by x0, joined with newlines
_extract_column(words) ==
    LET sorted_words == StableSort(words, ByTopX0(words))
        grouped == LineLoop(sorted_words, 2, <<>>, <<sorted_words[1]>>)
        lines == [k \in 1..Len(grouped) |->
                     StableSort(grouped[k], ByX0(grouped[k]))]
    IN  JoinLines([k \in 1..Len(lines) |-> _join_words_with_spacing(lines[k])])

(***************************************************************************)
(* Per-page reconstruction (extractor.py _extract_page), one action per    *)
(* stage.  ep.stages lists the stages in the order they ran.               *)
(***************************************************************************)
MaxExtractBoxes == 3

EpInit ==
    LET \* a base box H with a superscript 2 right of it, a section number, a base
        \* box T inside the table region with a superscript just outside it, and a
        \* lone digit centred in the bottom margin
        ExtractBoxes ==
            { Box(<<"H">>, 100, 110, 100, 110, 10),
              Box(<<"2">>, 111, 114, 100, 104, 5),
              Box(<<"1", ".">>, 100, 110, 130, 140, 10),
              Box(<<"T">>, 100, 110, 300, 310, 10),
              Box(<<"2">>, 111, 114, 300, 304, 5),
              Box(<<"1">>, 290, 310, 770, 780, 10),
              Box(<<"1", "/", "2">>, 320, 350, 770, 780, 10) }
    IN
    LET \* the (headers, footers) pairs _detect_repeating_elements may have found;
        \* a text must recur on 80% of the sampled pages, so each list holds at most
        \* one text: none, or a repeating section heading with a repeating digit
        \* below
        RepeatingElements ==
            { [headers |-> <<>>, footers |-> <<>>],
              [headers |-> << <<"1", ".">> >>, footers |-> << <<"1">> >>] }
    IN
    LET TableRegion == [x0 |-> 90, top |-> 290, x1 |-> 110, bottom |-> 400]
    IN
    /\ \E page_words \in SeqsUpTo(ExtractBoxes, MaxExtractBoxes),
          repeating \in RepeatingElements,
          \* the OCR processor's outcome matters only when the threshold is
          \* above the word count
          ocr \in {<<0, "none">>, <<2, "none">>, <<2, "fails">>,
                   <<2, "low_confidence">>, <<2, "succeeds">>} :
           ep \in [pc : {"start"},
                   page_words : {page_words},
                   page : PageSizes,
                   table_regions : {<<>>, <<TableRegion>>},
                   headers : {repeating.headers},
                   footers : {repeating.footers},
                   ocr : {ocr[2]},
                   OCR_MIN_WORDS_THRESHOLD : {ocr[1]},
                   previous_pages : {<<>>, << <<"P">> >>},
                   all_pages : {<<>>},
                   raw_text : {<<>>},
                   words : {<<>>},
                   filter_words : {<<>>},
                   stages : {<<>>},
                   columns : {<<>>},
                   via : {"none"},
                   text : {<<>>}]
    /\ fn = Off /\ ah = Off /\ fmt = Off /\ ld = Off /\ pg = Off
    /\ mx = Off /\ col = Off /\ scr = Off /\ pn = Off /\ orch = Off

\* lines 184-211: the words of the page, the OCR branch and the empty page
ExtractWords ==
    /\ ep.pc = "start"
    /\ IF /\ Len(ep.page_words) < ep.OCR_MIN_WORDS_THRESHOLD
          /\ ep.ocr = "succeeds"
       THEN ep' = [ep EXCEPT !.pc = "returned", !.via = "ocr",
                             !.stages = <<"ocr">>,
                             !.text = <<"OCR_TEXT">>]
       ELSE IF ep.page_words = <<>>
       THEN ep' = [ep EXCEPT !.pc = "returned", !.via = "empty"]
       ELSE ep' = [ep EXCEPT !.pc = "words", !.words = ep.page_words]
    /\ UNCHANGED <<fn, ah, fmt, ld, pg, mx, col, scr, pn, orch>>

\* lines 217-222: table regions, and the words inside them left out
TableExclude ==
    /\ ep.pc = "words"
    /\ IF ep.table_regions # <<>>
       THEN ep' = [ep EXCEPT
                 !.pc = "table_words_excluded",
                 !.words = _exclude_table_words(ep.words, ep.table_regions),
                 !.stages = Append(ep.stages, "table_exclude")]
       ELSE ep' = [ep EXCEPT !.pc = "table_words_excluded"]
    /\ UNCHANGED <<fn, ah, fmt, ld, pg, mx, col, scr, pn, orch>>

\* line 229
ScriptAttach ==
    /\ ep.pc = "table_words_excluded"
    /\ ep' = [ep EXCEPT !.pc = "scripts_attached",
                        !.words = _integrate_super_subscripts(ep.words),
                        !.stages = Append(ep.stages, "script_attach")]
    /\ UNCHANGED <<fn, ah, fmt, ld, pg, mx, col, scr, pn, orch>>

\* lines 232-234; filter_words is the list handed to _filter_metadata
MetadataFilter ==
    /\ ep.pc = "scripts_attached"
    /\ IF REMOVE_HEADERS_FOOTERS \/ REMOVE_PAGE_NUMBERS
       THEN ep' = [ep EXCEPT
                 !.pc = "filtered",
                 !.filter_words = ep.words,
                 !.words = _filter_metadata(ep.words, ep.headers, ep.footers,
                                            ep.page.height, ep.page.width),
                 !.stages = Append(ep.stages, "metadata_filter")]
       ELSE ep' = [ep EXCEPT !.pc = "filtered"]
    /\ UNCHANGED <<fn, ah, fmt, ld, pg, mx, col, scr, pn, orch>>

\* line 237
GroupColumns ==
    /\ ep.pc = "filtered"
    /\ ep' = [ep EXCEPT !.pc = "columns",
                        !.columns = _detect_columns(ep.words),
                        !.stages = Append(ep.stages, "column_grouping")]
    /\ UNCHANGED <<fn, ah, fmt, ld, pg, mx, col, scr, pn, orch>>

\* lines 239-255: the text of each column, joined by a blank line, and the
\* tables appended
JoinText ==
    /\ ep.pc = "columns"
    /\ LET page_texts == [k \in 1..Len(ep.columns) |->
                             _extract_column(ep.columns[k])]
           joined == JoinLines([k \in 1..(2 * Len(page_texts) - 1) |->
                        IF k % 2 = 1 THEN page_texts[(k + 1) \div 2]
                        ELSE <<>>])
       IN  ep' = [ep EXCEPT
                 !.pc = "returned",
                 !.via = "reconstruction",
                 !.stages = Append(ep.stages, "spacing_join"),
                 !.text = IF ep.table_regions # <<>>
                          THEN joined \o <<"NL", "NL", "TABLE_TEXT">>
                          ELSE joined]
    /\ UNCHANGED <<fn, ah, fmt, ld, pg, mx, col, scr, pn, orch>>

\* a loop body that appends every page text
AppendPageTextAlways(all_pages, page_text) == Append(all_pages, page_text)

\* extract_pdf lines 129-130: a page text that is empty after strip() is not
\* appended
AppendPageText(all_pages, page_text) ==
    IF strip(page_text) # <<>> THEN Append(all_pages, page_text)
    ELSE all_pages

\* extract_pdf lines 127-133 for the last page of a document: previous_pages
\* holds the texts appended for the pages before it; raw_text is the pages
\* joined by a blank line.  The cleanup that follows is a function of
\* raw_text alone.
JoinPages ==
    /\ ep.pc = "returned"
    /\ LET all_pages == AppendPageText(ep.previous_pages, ep.text)
       IN  ep' = [ep EXCEPT
                 !.pc = "joined",
                 !.all_pages = all_pages,
                 !.raw_text =
                     JoinLines([k \in 1..(2 * Len(all_pages) - 1) |->
                                   IF k % 2 = 1 THEN all_pages[(k + 1) \div 2]
                                   ELSE <<>>])]
    /\ UNCHANGED <<fn, ah, fmt, ld, pg, mx, col, scr, pn, orch>>

SpecExtractPage ==
    /\ EpInit
    /\ [][\/ ExtractWords
         \/ TableExclude
         \/ ScriptAttach
         \/ MetadataFilter
         \/ GroupColumns
         \/ JoinText
         \/ JoinPages]_vars

\* the positions at which a stage ran
StagePositions(stage) == {k \in 1..Len(ep.stages) : ep.stages[k] = stage}

\* every run of stage a comes before every run of stage b
RunsBefore(a, b) ==
    \A i \in StagePositions(a) : \A j \in StagePositions(b) : i < j

\* C9: a page with at least one word box that is reconstructed from its
\* boxes has its stages run in the order script attach, table exclude,
\* metadata filter, column/line grouping, spacing join, with script
\* attachment run exactly once and before any box is removed by table
\* exclusion or the metadata filter.
C9_StageOrder ==
    (ep.pc = "returned" /\ ep.via = "reconstruction") =>
        /\ Cardinality(StagePositions("script_attach")) = 1
        /\ RunsBefore("script_attach", "table_exclude")
        /\ RunsBefore("script_attach", "metadata_filter")
        /\ RunsBefore("table_exclude", "metadata_filter")
        /\ RunsBefore("metadata_filter", "column_grouping")
        /\ RunsBefore("column_grouping", "spacing_join")

\* the texts of the boxes handed to the filter that match a pattern list
FilterTextMatches(word, patterns, ic) ==
    \E k \in 1..Len(patterns) : Ends(patterns[k], strip(word.text), 1, ic) # {}

\* the box is one of 1-3 pure digits
FilterShortDigits(word) ==
    /\ strip(word.text) # <<>>
    /\ Len(strip(word.text)) <= 3
    /\ \A k \in 1..Len(strip(word.text)) : strip(word.text)[k] \in Digits

\* the box's text equals a detected repeating header or footer
FilterIsRepeating(word) ==
    \/ \E k \in 1..Len(ep.headers) : ep.headers[k] = strip(word.text)
    \/ \E k \in 1..Len(ep.footers) : ep.footers[k] = strip(word.text)

\* the decision of the first applicable rule, in the order (1) keep section
\* numbers, (2) keep footnote markers, (3) drop strict page patterns,
\* (4) drop repeating headers/footers, (5) drop 1-3 digits only if they are
\* a page number, (6) keep
FirstApplicableRuleKeeps(word) ==
    IF FilterTextMatches(word, section_patterns, FALSE) THEN TRUE
    ELSE IF FilterTextMatches(word, footnote_markers, FALSE) THEN TRUE
    ELSE IF FilterTextMatches(word, strict_page_patterns, TRUE) THEN FALSE
    ELSE IF FilterIsRepeating(word) THEN FALSE
    ELSE IF FilterShortDigits(word)
    THEN ~_is_page_number_not_content(word, ep.page.height, ep.page.width,
                                      ep.filter_words)
    ELSE TRUE

\* C12: for each non-empty box the Metadata Filter's decision is that of the
\* first applicable rule in the fixed order section number (keep), footnote
\* marker (keep), strict page pattern (drop), repeating header/footer
\* (drop), 1-3 digits (drop only if a page number), otherwise keep.
C12_FirstApplicableRuleDecides ==
    (ep.pc = "filtered" /\ ep.filter_words # <<>>) =>
        ep.words = SelectSeq(ep.filter_words,
                             LAMBDA word : /\ strip(word.text) # <<>>
                                           /\ FirstApplicableRuleKeeps(word))

\* a filtered page on which a repeating header that is a section number was
\* kept and a digit that repeats as a footer was dropped although it is no
\* page number
C12_Witness ==
    /\ ep.pc = "filtered"
    /\ \E i \in 1..Len(ep.filter_words) :
           /\ FilterTextMatches(ep.filter_words[i], section_patterns, FALSE)
           /\ FilterIsRepeating(ep.filter_words[i])
           /\ ep.filter_words[i] \in Range(ep.words)
    /\ \E i \in 1..Len(ep.filter_words) :
           /\ FilterShortDigits(ep.filter_words[i])
           /\ FilterIsRepeating(ep.filter_words[i])
           /\ ~_is_page_number_not_content(ep.filter_words[i],
                                           ep.page.height, ep.page.width,
                                           ep.filter_words)
           /\ ep.filter_words[i] \notin Range(ep.words)

\* the joined text of the pages before the page
PreviousText == IF ep.previous_pages = <<>> THEN <<>> ELSE ep.previous_pages[1]

MaxFootnoteBoxes == 3

\* a marker for every word whose stripped text starts with a marker pattern
_find_markers(words, page_num) ==
    LET \* self.marker_patterns; \*(?=[^\d]|$) is an asterisk no digit follows
        marker_patterns ==
            << Cat(<<Lit("*"), Plus(In(Digits))>>),
               Cat(<<Lit("*"), NotAhead(In(Digits))>>),
               Cat(<<Lit("kome"), Star(In(Digits))>>),
               Cat(<<Lit("chu"), Star(In(Digits))>>),
               Lit("dagger"),
               Lit("ddagger"),
               Cat(<<Lit("["), Plus(In(Digits)), Lit("]")>>),
               Cat(<<Lit("("), Plus(In(Digits)), Lit(")")>>),
               Plus(In({"u00B9", "u00B2", "u00B3", "u2074", "u2075", "u2076",
                        "u2077", "u2078", "u2079", "u2070"})) >>
    IN
    LET hits == SelectSeq(words,
                    LAMBDA word : MatchesAny(marker_patterns,
                                             strip(word.text), FALSE))
    IN  [k \in 1..Len(hits) |->
            [marker |-> strip(hits[k].text), page_number |-> page_num]]

\* one definition for every line that starts with a definition pattern; its
\* text runs on over the lines up to the next such line
_find_definitions(words, page_num) ==
    LET \* ' '.join(parts)
        RECURSIVE JoinSpaces(_)
        JoinSpaces(parts) ==
            IF parts = <<>> THEN <<>>
            ELSE IF Len(parts) = 1 THEN parts[1]
            ELSE parts[1] \o <<" ">> \o JoinSpaces(Tail(parts))
    IN
    LET \* lines of words whose top is less than 5 from the top of the line's first
        \* word, each line sorted by x0
        _group_into_lines(words_) ==
            LET RECURSIVE Loop(_, _, _)
                Loop(i, lines, current_line) ==
                    LET sorted_line == StableSort(current_line, ByX0(current_line))
                    IN  IF i > Len(words_) THEN Append(lines, sorted_line)
                        ELSE LET d == words_[i].top - current_line[1].top
                             IN  IF (IF d < 0 THEN -d ELSE d) < 5
                                 THEN Loop(i + 1, lines,
                                           Append(current_line, words_[i]))
                                 ELSE Loop(i + 1, Append(lines, sorted_line),
                                           <<words_[i]>>)
            IN  IF words_ = <<>> THEN <<>> ELSE Loop(2, <<>>, <<words_[1]>>)
    IN
    LET \* self.definition_patterns: ^, a marker, and one of whitespace, ':' or the
        \* full-width colon
        definition_patterns ==
            LET sep == In(Whitespace \cup {":", "fwcolon"})
            IN  << Cat(<<Bol, Lit("*"), Plus(In(Digits)), sep>>),
                   Cat(<<Bol, Lit("*"), sep>>),
                   Cat(<<Bol, Lit("kome"), Star(In(Digits)), sep>>),
                   Cat(<<Bol, Lit("chu"), Star(In(Digits)), sep>>),
                   Cat(<<Bol, Lit("dagger"), sep>>),
                   Cat(<<Bol, Lit("ddagger"), sep>>),
                   Cat(<<Bol, Lit("["), Plus(In(Digits)), Lit("]"), sep>>),
                   Cat(<<Bol, Lit("("), Plus(In(Digits)), Lit(")"), sep>>),
                   Cat(<<Bol, Plus(In({"u00B9", "u00B2", "u00B3", "u2074", "u2075",
                                       "u2076", "u2077", "u2078", "u2079",
                                       "u2070"})), sep>>) >>
    IN
    LET sorted_words == StableSort(words, ByTopX0(words))
        lines == _group_into_lines(sorted_words)
        line_text == [i \in 1..Len(lines) |->
                         JoinSpaces([k \in 1..Len(lines[i]) |->
                                        lines[i][k].text])]
        starts == SelectSeq([i \in 1..Len(lines) |-> i],
                      LAMBDA i : MatchesAny(definition_patterns,
                                            line_text[i], FALSE))
        \* match.group() of the first pattern that matches; every pattern
        \* has one possible end
        group(i) ==
            LET k == CHOOSE k \in 1..Len(definition_patterns) :
                        /\ Ends(definition_patterns[k], line_text[i], 1,
                                FALSE) # {}
                        /\ \A j \in 1..(k - 1) :
                              Ends(definition_patterns[j], line_text[i], 1,
                                   FALSE) = {}
                e == CHOOSE e \in Ends(definition_patterns[k], line_text[i],
                                       1, FALSE) : TRUE
            IN  SubSeq(line_text[i], 1, e - 1)
        \* .rstrip(':：')
        rstrip_colons(t) ==
            LET keep == {i \in 1..Len(t) : t[i] \notin {":", "fwcolon"}}
            IN  IF keep = {} THEN <<>>
                ELSE SubSeq(t, 1, CHOOSE i \in keep : \A j \in keep : j <= i)
        \* the text after the marker and the whitespace and colons behind it
        after_marker(t, from) ==
            LET rest == {i \in from..Len(t) :
                            t[i] \notin Whitespace \cup {":", "fwcolon"}}
            IN  IF rest = {} THEN <<>>
                ELSE SubSeq(t, CHOOSE i \in rest : \A j \in rest : i <= j,
                            Len(t))
    IN  [n \in 1..Len(starts) |->
            LET i == starts[n]
                j == IF n < Len(starts) THEN starts[n + 1]
                     ELSE Len(lines) + 1
                matched_marker == strip(rstrip_colons(group(i)))
                full_text == JoinSpaces([m \in 1..(j - i) |->
                                            line_text[i + m - 1]])
            IN  [marker |-> matched_marker,
                 text |-> strip(after_marker(full_text,
                                             Len(matched_marker) + 1)),
                 page_number |-> page_num]]

\* footnote_region_threshold is 0.80: top < page_height * 0.8
_extract_page_footnotes(words, page_height, page_num) ==
    IF words = <<>> THEN [markers |-> <<>>, definitions |-> <<>>]
    ELSE [markers |->
              _find_markers(SelectSeq(words,
                                LAMBDA word : 5 * word.top < 4 * page_height),
                            page_num),
          definitions |->
              _find_definitions(SelectSeq(words,
                                    LAMBDA word :
                                        ~(5 * word.top < 4 * page_height)),
                                page_num)]

\* a match holds its marker, its definition and the confidence; markers and
\* definitions are told apart by their marker text only
verify_completeness(markers, definitions, matches) ==
    LET total_markers == Len(markers)
        total_matches == Len(matches)
        matched_marker_texts == {matches[a].marker.marker :
                                    a \in 1..Len(matches)}
        matched_def_texts == {matches[a].definition.marker :
                                 a \in 1..Len(matches)}
    IN  [total_markers |-> total_markers,
         total_definitions |-> Len(definitions),
         total_matches |-> total_matches,
         unmatched_markers |->
             SelectSeq(markers, LAMBDA m : m.marker \notin matched_marker_texts),
         unmatched_definitions |->
             SelectSeq(definitions, LAMBDA d : d.marker \notin matched_def_texts),
         status |-> IF total_markers = 0 \/ total_matches = total_markers
                    THEN "COMPLETE"
                    ELSE IF 5 * total_matches >= 4 * total_markers
                    THEN "PARTIAL" ELSE "POOR"]

\* page 1 of the two-page document: a section heading at the top
HeadingPage ==
    << Box(<<"u7B2C", "1", "u7AE0">>, 50, 80, 20, 32, 12),
       Box(<<"u898B", "u51FA", "u3057">>, 90, 130, 20, 32, 12) >>

FootnotePhaseInit ==
    LET \* boxes of page 2: a marker low in the main region, the same marker inside
        \* the footnote region, a definition line, a word of the body and another
        \* marker in the body
        FootnoteBoxes ==
            { Box(<<"*", "1">>, 200, 212, 600, 610, 10),
              Box(<<"*", "1">>, 200, 212, 660, 670, 10),
              Box(<<"*", "1", ":", " ", "u8AAC", "u660E", "u6587">>,
                  50, 150, 700, 710, 10),
              Box(<<"u672C", "u6587">>, 50, 90, 300, 310, 10),
              Box(<<"chu", "1">>, 100, 115, 300, 310, 10) }
    IN
    /\ fn \in [pc : {"extract_pages"},
               pages : {<<page1, page2>> :
                           page1 \in {<<>>, HeadingPage},
                           page2 \in SeqsUpTo(FootnoteBoxes,
                                              MaxFootnoteBoxes)},
               page : PageSizes,
               kept : {<<>>},
               all_footnotes_data : {<<>>},
               page_num : {1},
               all_markers : {<<>>},
               all_definitions : {<<>>},
               all_matches : {<<>>},
               footnote_report : {[status |-> "none"]}]
    /\ ah = Off /\ fmt = Off /\ ld = Off /\ pg = Off /\ mx = Off
    /\ col = Off /\ scr = Off /\ ep = Off /\ pn = Off /\ orch = Off

\* master_extractor.py line 284: the pages are extracted; kept[p] is the
\* boxes of page p that pass script attachment and the metadata filter (a
\* document of fewer than 3 pages has no repeating headers or footers)
ExtractPagesBeforeFootnotes ==
    /\ fn.pc = "extract_pages"
    /\ fn' = [fn EXCEPT
              !.pc = "phase6",
              !.kept = [p \in 1..Len(fn.pages) |->
                           _filter_metadata(
                               _integrate_super_subscripts(fn.pages[p]),
                               <<>>, <<>>, fn.page.height, fn.page.width)]]
    /\ UNCHANGED <<ah, fmt, ld, pg, mx, col, scr, ep, pn, orch>>

\* line 321: extract_footnotes_from_pdf
ExtractFootnotesFromPdf ==
    /\ fn.pc = "phase6"
    /\ fn' = [fn EXCEPT
              !.pc = "collect",
              !.all_footnotes_data =
                  [p \in 1..Len(fn.pages) |->
                      _extract_page_footnotes(fn.pages[p], fn.page.height,
                                              p)]]
    /\ UNCHANGED <<ah, fmt, ld, pg, mx, col, scr, ep, pn, orch>>

\* lines 328-334: one iteration of the loop over the pages; the TypeError of
\* match_markers_to_definitions is not caught
CollectPageFootnotes ==
    /\ fn.pc = "collect"
    /\ fn.page_num <= Len(fn.all_footnotes_data)
    /\ LET markers == fn.all_footnotes_data[fn.page_num].markers
           definitions == fn.all_footnotes_data[fn.page_num].definitions
           r == match_markers_to_definitions(markers, definitions)
       IN  fn' = [fn EXCEPT
                 !.pc = IF r.raised THEN "TypeError" ELSE "collect",
                 !.page_num = fn.page_num + 1,
                 !.all_markers = fn.all_markers \o markers,
                 !.all_definitions = fn.all_definitions \o definitions,
                 !.all_matches =
                     fn.all_matches
                       \o [a \in 1..Len(r.matches) |->
                              [marker |-> markers[r.matches[a].marker],
                               definition |->
                                   definitions[r.matches[a].definition],
                               confidence |-> r.matches[a].confidence]]]
    /\ UNCHANGED <<ah, fmt, ld, pg, mx, col, scr, ep, pn, orch>>

\* lines 337-339
VerifyFootnotes ==
    /\ fn.pc = "collect"
    /\ fn.page_num > Len(fn.all_footnotes_data)
    /\ fn' = [fn EXCEPT
              !.pc = "footnotes_verified",
              !.footnote_report =
                  verify_completeness(fn.all_markers, fn.all_definitions,
                                      fn.all_matches)]
    /\ UNCHANGED <<ah, fmt, ld, pg, mx, col, scr, ep, pn, orch>>

SpecFootnotePhase ==
    /\ FootnotePhaseInit
    /\ [][\/ ExtractPagesBeforeFootnotes
         \/ ExtractFootnotesFromPdf
         \/ CollectPageFootnotes
         \/ VerifyFootnotes]_vars

\* the two-page document of the scenario: the heading page, and a page with a
\* *1 marker box (low in the main region, or inside the footnote region)
\* followed by the definition box
IsFootnoteScenario ==
    /\ fn.pages[1] = HeadingPage
    /\ Len(fn.pages[2]) = 2
    /\ fn.pages[2][1].text = <<"*", "1">>
    /\ fn.pages[2][2].text = <<"*", "1", ":", " ", "u8AAC", "u660E", "u6587">>

\* C14: for the two-page document with the section heading on page 1 and a
\* *1 marker box and the definition box "*1: ..." on page 2, the pipeline
\* keeps the section marker, produces exactly one match with confidence at
\* least 0.95 and reports the footnote status COMPLETE.
C14_ScenarioOneMatchComplete ==
    (fn.pc \in {"footnotes_verified", "TypeError"} /\ IsFootnoteScenario) =>
        /\ fn.pc = "footnotes_verified"
        /\ HeadingPage[1] \in Range(fn.kept[1])
        /\ Len(fn.all_matches) = 1
        /\ fn.all_matches[1].confidence >= 95
        /\ fn.footnote_report.status = "COMPLETE"

\* One call of verify_completeness on markers, definitions and matches that
\* pair some of the markers with some of the definitions, each at most once;
\* pairs holds the (marker index, definition index) of the matches.
CompletenessInit ==
    /\ \E markers \in SeqsUpTo([marker : {<<"*", "1">>, <<"*", "2">>},
                                 page_number : {1}], MaxMarkers),
          definitions \in SeqsUpTo([marker : {<<"*", "1">>, <<"*", "2">>},
                                     text : {"ta"}, page_number : {1}],
                                    MaxDefinitions) :
         \E pairs \in SUBSET ((1..Len(markers)) \X (1..Len(definitions))) :
             /\ \A p, q \in pairs : (p[1] = q[1] \/ p[2] = q[2]) => p = q
             /\ fn = [pc |-> "completeness_ready",
                      markers |-> markers,
                      definitions |-> definitions,
                      pairs |-> pairs,
                      report |-> [status |-> "none"]]
    /\ ah = Off /\ fmt = Off /\ ld = Off /\ pg = Off /\ mx = Off
    /\ col = Off /\ scr = Off /\ ep = Off /\ pn = Off /\ orch = Off

VerifyCompleteness ==
    /\ fn.pc = "completeness_ready"
    /\ LET \* the matches in the order of their markers
           nth(a) == CHOOSE p \in fn.pairs :
                        Cardinality({q \in fn.pairs : q[1] < p[1]}) = a - 1
           matches == [a \in 1..Cardinality(fn.pairs) |->
                          [marker |-> fn.markers[nth(a)[1]],
                           definition |-> fn.definitions[nth(a)[2]],
                           confidence |-> 100]]
       IN  fn' = [fn EXCEPT
                 !.pc = "completeness_returned",
                 !.report = verify_completeness(fn.markers, fn.definitions,
                                                matches)]
    /\ UNCHANGED <<ah, fmt, ld, pg, mx, col, scr, ep, pn, orch>>

SpecCompleteness ==
    /\ CompletenessInit
    /\ [][VerifyCompleteness]_vars

\* C19: verify_completeness reports every marker that has no match in
\* unmatched_markers and every definition that has no match in
\* unmatched_definitions, also when its marker text equals that of another,
\* matched one.
C19_EveryUnmatchedReported ==
    (fn.pc = "completeness_returned") =>
        /\ \A i \in 1..Len(fn.markers) :
              (\A p \in fn.pairs : p[1] # i) =>
                 \E k \in 1..Len(fn.report.unmatched_markers) :
                    fn.report.unmatched_markers[k] = fn.markers[i]
        /\ \A i \in 1..Len(fn.definitions) :
              (\A p \in fn.pairs : p[2] # i) =>
                 \E k \in 1..Len(fn.report.unmatched_definitions) :
                    fn.report.unmatched_definitions[k] = fn.definitions[i]

(***************************************************************************)
(* Orchestration: BatchProcessor._process_parallel (batch_processor.py)    *)
(* and the API's background batch tasks (api.py).                          *)
(*                                                                         *)
(* An extraction is a record [unit, pdf, extractor, handle]: the unit that *)
(* dispatched it (a pool future, a background task, a request), the        *)
(* extractor object whose extract() runs, and the handle that              *)
(* pdfplumber.open returns inside it.  `extractions` holds every           *)
(* extraction begun, `running` those that have not returned.  Extractor 0  *)
(* is the module-level `extractor` of api.py; every MasterExtractor(...)   *)
(* call in a function body yields the next positive number.  `concurrent`  *)
(* holds the pairs of units of which one was dispatched while the other    *)
(* was unfinished.                                                         *)
(***************************************************************************)
MaxWorkers == 2

MaxPoolFiles == 2

MaxJobs == 2

MaxJobFiles == 2

MaxRequests == 1

\* the units dispatched and not finished: futures without a result, jobs
\* with status "processing", the request being served
LiveUnits ==
    { [kind |-> "future", id |-> f] : f \in orch.futures }
        \cup { [kind |-> "task", id |-> j] :
                 j \in { i \in DOMAIN orch.jobs : orch.jobs[i].status = "processing" } }
        \cup (IF orch.loop = "request"
              THEN {[kind |-> "request", id |-> orch.requests]} ELSE {})

OrchInit ==
    /\ orch = [pc |-> "serving",
               futures |-> {}, submitted |-> FALSE,
               jobs |-> <<>>, loop |-> "idle", requests |-> 0,
               extractions |-> {}, running |-> {}, concurrent |-> {},
               created |-> 0, opened |-> 0]
    /\ fn = Off /\ ah = Off /\ fmt = Off /\ ld = Off /\ pg = Off
    /\ mx = Off /\ col = Off /\ scr = Off /\ ep = Off /\ pn = Off

\* _process_parallel: every file is submitted to the pool before any
\* result is awaited.
ProcessParallel ==
    /\ orch.pc = "serving" /\ ~orch.submitted
    /\ \E n \in 1..MaxPoolFiles :
          LET units == { [kind |-> "future", id |-> f] : f \in 1..n } IN
          orch' = [orch EXCEPT
                 !.submitted = TRUE,
                 !.futures = 1..n,
                 !.concurrent = @ \cup { {u, v} : u \in units,
                                                  v \in LiveUnits \cup units }]
    /\ UNCHANGED <<fn, ah, fmt, ld, pg, mx, col, scr, ep, pn>>

\* _process_single on a pool thread, at most max_workers at a time: a
\* MasterExtractor of its own, then extract(), which opens the file.
ProcessSingle ==
    /\ orch.pc = "serving"
    /\ Cardinality({ x \in orch.running : x.unit.kind = "future" }) < MaxWorkers
    /\ \E f \in orch.futures :
          LET unit == [kind |-> "future", id |-> f]
              x == [unit |-> unit, pdf |-> f, extractor |-> orch.created + 1,
                    handle |-> orch.opened + 1]
          IN  /\ \A y \in orch.extractions : y.unit # unit
              /\ orch' = [orch EXCEPT
                     !.created = @ + 1,
                     !.opened = @ + 1,
                     !.extractions = @ \cup {x},
                     !.running = @ \cup {x}]
    /\ UNCHANGED <<fn, ah, fmt, ld, pg, mx, col, scr, ep, pn>>

ProcessSingleReturns ==
    /\ orch.pc = "serving"
    /\ \E x \in orch.running :
          /\ x.unit.kind = "future"
          /\ orch' = [orch EXCEPT
                 !.running = @ \ {x},
                 !.futures = @ \ {x.unit.id}]
    /\ UNCHANGED <<fn, ah, fmt, ld, pg, mx, col, scr, ep, pn>>

\* POST /extract/batch: the job is registered and process_batch is added
\* as a background task.
extract_batch_pdfs ==
    /\ orch.pc = "serving"
    /\ Len(orch.jobs) < MaxJobs
    /\ \E n \in 1..MaxJobFiles :
          LET unit == [kind |-> "task", id |-> Len(orch.jobs) + 1] IN
          orch' = [orch EXCEPT
                 !.jobs = Append(@, [total |-> n, completed |-> 0,
                                     status |-> "processing"]),
                 !.concurrent = @ \cup { {unit, v} : v \in LiveUnits \cup {unit} }]
    /\ UNCHANGED <<fn, ah, fmt, ld, pg, mx, col, scr, ep, pn>>

\* process_batch is a coroutine without an await: once the event loop
\* starts it, the loop runs nothing else until its last file is done.
\* Each file is extracted by the module-level extractor.  File k of job j
\* is PDF 10 * j + k.
process_batch ==
    LET ModuleExtractor == 0
    IN
    /\ orch.pc = "serving"
    /\ \A x \in orch.running : x.unit.kind # "task"
    /\ \E j \in DOMAIN orch.jobs :
          LET unit == [kind |-> "task", id |-> j]
              begun == \E x \in orch.extractions : x.unit = unit
              x == [unit |-> unit, pdf |-> 10 * j + orch.jobs[j].completed + 1,
                    extractor |-> ModuleExtractor, handle |-> orch.opened + 1]
          IN  /\ orch.jobs[j].status = "processing"
              /\ \/ orch.loop = "idle" /\ ~begun
                 \/ orch.loop = "task" /\ begun
              /\ orch' = [orch EXCEPT
                     !.loop = "task",
                     !.opened = @ + 1,
                     !.extractions = @ \cup {x},
                     !.running = @ \cup {x}]
    /\ UNCHANGED <<fn, ah, fmt, ld, pg, mx, col, scr, ep, pn>>

ProcessBatchStoresResult ==
    /\ orch.pc = "serving"
    /\ \E x \in orch.running :
          /\ x.unit.kind = "task"
          /\ LET j == x.unit.id
                 completed == orch.jobs[j].completed + 1
                 last == completed = orch.jobs[j].total
             IN  orch' = [orch EXCEPT
                     !.running = @ \ {x},
                     !.jobs[j].completed = completed,
                     !.jobs[j].status = IF last THEN "completed" ELSE @,
                     !.loop = IF last THEN "idle" ELSE @]
    /\ UNCHANGED <<fn, ah, fmt, ld, pg, mx, col, scr, ep, pn>>

\* POST /extract: a coroutine without an await around the extraction; it
\* builds local_extractor for the one uploaded file (PDF 100 + request).
extract_single_pdf ==
    /\ orch.pc = "serving"
    /\ orch.loop = "idle"
    /\ orch.requests < MaxRequests
    /\ LET r == orch.requests + 1
           unit == [kind |-> "request", id |-> r]
           x == [unit |-> unit, pdf |-> 100 + r, extractor |-> orch.created + 1,
                 handle |-> orch.opened + 1]
       IN  orch' = [orch EXCEPT
                 !.loop = "request",
                 !.requests = r,
                 !.created = @ + 1,
                 !.opened = @ + 1,
                 !.concurrent = @ \cup { {unit, v} : v \in LiveUnits \cup {unit} },
                 !.extractions = @ \cup {x},
                 !.running = @ \cup {x}]
    /\ UNCHANGED <<fn, ah, fmt, ld, pg, mx, col, scr, ep, pn>>

ExtractSinglePdfResponds ==
    /\ orch.pc = "serving"
    /\ \E x \in orch.running :
          /\ x.unit.kind = "request"
          /\ orch' = [orch EXCEPT !.running = @ \ {x}, !.loop = "idle"]
    /\ UNCHANGED <<fn, ah, fmt, ld, pg, mx, col, scr, ep, pn>>

SpecOrchestration ==
    OrchInit /\ [][ProcessParallel \/ ProcessSingle \/ ProcessSingleReturns
                   \/ extract_batch_pdfs \/ process_batch
                   \/ ProcessBatchStoresResult
                   \/ extract_single_pdf \/ ExtractSinglePdfResponds]_vars

NoExtractorInUseByTwoDocuments ==
    orch.pc = "serving" =>
        \A a \in orch.running : \A b \in orch.running :
            a # b => a.extractor # b.extractor /\ a.handle # b.handle

SimultaneousExtractions ==
    orch.pc = "serving" /\ Cardinality(orch.running) >= 2

(***************************************************************************)
(* Several large-document runs at the same time (large_doc_extractor.py).  *)
(* The checkpoint of a run is the file pdf_path + ".checkpoint", so the    *)
(* file system is a function from PDF paths to checkpoints.  `writer`      *)
(* remembers which run wrote the checkpoint of a path (0: nobody), and     *)
(* `events` which run loaded, overwrote or removed a checkpoint written by *)
(* another run that was still in its batch loop.                           *)
(***************************************************************************)
MaxRuns == 2

MaxPdfPaths == 2

MaxRunPages == 2

ConcurrentInit ==
    /\ \E pdf_path \in [1..MaxRuns -> 1..MaxPdfPaths] :
           ld \in [pc : {"runs"},
                   total_pages : 1..MaxRunPages,
                   batch_size : {1},
                   checkpoint_interval : {1},
                   runs : {[r \in 1..MaxRuns |->
                              [pc |-> "idle", pdf_path |-> pdf_path[r],
                               batch_start |-> 0, all_pages |-> <<>>]]},
                   checkpoint : {[p \in 1..MaxPdfPaths |-> NoCheckpoint]},
                   writer : {[p \in 1..MaxPdfPaths |-> 0]},
                   events : {{}}]
    /\ fn = Off /\ ah = Off /\ fmt = Off /\ pg = Off /\ mx = Off
    /\ col = Off /\ scr = Off /\ ep = Off /\ pn = Off /\ orch = Off

\* extract, lines 147-162, in run r: checkpoint_file is named after the PDF
\* alone and is loaded if it exists
RunLoadsCheckpoint ==
    /\ ld.pc = "runs"
    /\ \E r \in 1..MaxRuns :
          LET p == ld.runs[r].pdf_path
              loaded == _load_checkpoint(ld.checkpoint[p])
              w == ld.writer[p]
          IN  /\ ld.runs[r].pc = "idle"
              /\ ld' = [ld EXCEPT
                     !.runs[r].pc = "batches",
                     !.runs[r].all_pages = loaded.results,
                     !.runs[r].batch_start = loaded.page - 1,
                     !.events = IF /\ ld.checkpoint[p].state = "valid"
                                   /\ w # r /\ ld.runs[w].pc = "batches"
                                THEN @ \cup {[kind |-> "loaded", by |-> r, of |-> w]}
                                ELSE @]
    /\ UNCHANGED <<fn, ah, fmt, pg, mx, col, scr, ep, pn, orch>>

\* one iteration of the batch loop of run r, lines 163-198, with the
\* checkpoint written over whatever the file holds
RunProcessesBatch ==
    /\ ld.pc = "runs"
    /\ \E r \in 1..MaxRuns :
          LET run == ld.runs[r]
              p == run.pdf_path
              w == ld.writer[p]
              batch_end == Min(run.batch_start + ld.batch_size, ld.total_pages)
              all_pages == run.all_pages
                             \o BatchPages(run.batch_start, batch_end, {})
              saves == batch_end % ld.checkpoint_interval = 0
          IN  /\ run.pc = "batches"
              /\ run.batch_start < ld.total_pages
              /\ ld' = [ld EXCEPT
                     !.runs[r].all_pages = all_pages,
                     !.runs[r].batch_start = run.batch_start + ld.batch_size,
                     !.checkpoint[p] = IF saves
                                       THEN _save_checkpoint(batch_end, all_pages)
                                       ELSE @,
                     !.writer[p] = IF saves THEN r ELSE @,
                     !.events = IF /\ saves
                                   /\ ld.checkpoint[p].state = "valid"
                                   /\ w # r /\ ld.runs[w].pc = "batches"
                                THEN @ \cup {[kind |-> "overwritten", by |-> r, of |-> w]}
                                ELSE @]
    /\ UNCHANGED <<fn, ah, fmt, pg, mx, col, scr, ep, pn, orch>>

\* lines 204-225 in run r: the output is written and the checkpoint file
\* removed if it exists
RunFinishes ==
    /\ ld.pc = "runs"
    /\ \E r \in 1..MaxRuns :
          LET run == ld.runs[r]
              p == run.pdf_path
              w == ld.writer[p]
          IN  /\ run.pc = "batches"
              /\ run.batch_start >= ld.total_pages
              /\ ld' = [ld EXCEPT
                     !.runs[r].pc = "done",
                     !.checkpoint[p] = NoCheckpoint,
                     !.writer[p] = 0,
                     !.events = IF /\ ld.checkpoint[p].state = "valid"
                                   /\ w # r /\ ld.runs[w].pc = "batches"
                                THEN @ \cup {[kind |-> "removed", by |-> r, of |-> w]}
                                ELSE @]
    /\ UNCHANGED <<fn, ah, fmt, pg, mx, col, scr, ep, pn, orch>>

SpecConcurrentRuns ==
    ConcurrentInit
        /\ [][RunLoadsCheckpoint \/ RunProcessesBatch \/ RunFinishes]_vars

\* C21: the checkpoint of a large-document run is independent of any other
\* concurrent run: no run loads, overwrites or removes a checkpoint that
\* another run, still executing, has written.
C21_CheckpointIndependentOfOtherRuns ==
    ld.pc = "runs" => ld.events = {}

\* the same for runs on different PDF files only
CheckpointIndependentOnDifferentPaths ==
    ld.pc = "runs" =>
        \A e \in ld.events :
            ld.runs[e.by].pdf_path = ld.runs[e.of].pdf_path

(***************************************************************************)
(* Quality scorer: confidence of the assessment (quality_scorer.py).       *)
(* With five integer scores, 25 * variance is the integer                  *)
(* 5 * sum(s^2) - sum(s)^2, so a confidence c is kept as the integer       *)
(* 25000 * c and variance / 1000 as 25 * variance.                         *)
(***************************************************************************)
ScoreStep == 50

MaxScore == 100

_calculate_confidence(scores) ==
    LET \* 25 * variance of the scores
        RECURSIVE SumOver(_, _)
        SumOver(scores_, square) ==
            IF scores_ = <<>> THEN 0
            ELSE (IF square THEN scores_[1] * scores_[1] ELSE scores_[1])
                    + SumOver(Tail(scores_), square)
    IN
    LET ConfidenceUnit == 25000
    IN
    LET variance25 == Len(scores) * SumOver(scores, TRUE)
                        - SumOver(scores, FALSE) * SumOver(scores, FALSE)
        Max(a, b) == IF a >= b THEN a ELSE b
        \* 1.0 - min(0.5, variance / 1000)
        confidence == ConfidenceUnit - Min(ConfidenceUnit \div 2, variance25)
    IN  \* max(0.3, min(1.0, confidence))
        Max((3 * ConfidenceUnit) \div 10, Min(ConfidenceUnit, confidence))

QualityInit ==
    /\ mx \in [pc : {"dimensions"},
               scores : [1..5 -> { k * ScoreStep : k \in 0..(MaxScore \div ScoreStep) }],
               confidence : {0}]
    /\ fn = Off /\ ah = Off /\ fmt = Off /\ ld = Off /\ pg = Off
    /\ col = Off /\ scr = Off /\ ep = Off /\ pn = Off /\ orch = Off

\* score_extraction, line 150: the confidence from the five dimensions
CalculateConfidence ==
    /\ mx.pc = "dimensions"
    /\ mx' = [mx EXCEPT !.pc = "scored",
                        !.confidence = _calculate_confidence(mx.scores)]
    /\ UNCHANGED <<fn, ah, fmt, ld, pg, col, scr, ep, pn, orch>>

SpecQuality == QualityInit /\ [][CalculateConfidence]_vars

\* C23: the confidence of the quality report is 1.0 minus the variance of
\* the five dimension scores divided by 1000, floored at 0.3:
\* confidence = max(0.3, 1.0 - variance / 1000).
C23_ConfidenceFlooredAtThreeTenths ==
    mx.pc = "scored" =>
        LET sum == mx.scores[1] + mx.scores[2] + mx.scores[3]
                     + mx.scores[4] + mx.scores[5]
            squares == mx.scores[1] * mx.scores[1] + mx.scores[2] * mx.scores[2]
                         + mx.scores[3] * mx.scores[3] + mx.scores[4] * mx.scores[4]
                         + mx.scores[5] * mx.scores[5]
            claimed == 25000 - (5 * squares - sum * sum)
        IN  mx.confidence = IF claimed >= 7500 THEN claimed ELSE 7500

\* what the code computes: the penalty is capped at 0.5 first
ConfidenceFlooredAtOneHalf ==
    mx.pc = "scored" =>
        LET sum == mx.scores[1] + mx.scores[2] + mx.scores[3]
                     + mx.scores[4] + mx.scores[5]
            squares == mx.scores[1] * mx.scores[1] + mx.scores[2] * mx.scores[2]
                         + mx.scores[3] * mx.scores[3] + mx.scores[4] * mx.scores[4]
                         + mx.scores[5] * mx.scores[5]
            claimed == 25000 - (5 * squares - sum * sum)
        IN  mx.confidence = IF claimed >= 12500 THEN claimed ELSE 12500

(***************************************************************************)
(* The spacing decision between two boxes of a line (extractor.py).        *)
(***************************************************************************)
MaxGap == 11

SpacingInit ==
    LET \* a letter, a digit, two hiragana, brackets and terminators, ASCII
        \* and Japanese
        chars == {"a", "1", "u3042", "u3044", "(", ")", "uFF08", "uFF09",
                  "u300C", "u300D", ".", "u3002"}
    IN
    /\ ep \in [pc : {"boxes"}, prev_char : chars, curr_char : chars,
               gap : 0..MaxGap, add_space : {FALSE}]
    /\ fn = Off /\ ah = Off /\ fmt = Off /\ ld = Off /\ pg = Off
    /\ mx = Off /\ col = Off /\ scr = Off /\ pn = Off /\ orch = Off

\* _join_words_with_spacing, lines 606-613: the decision for one pair
ShouldAddSpace ==
    /\ ep.pc = "boxes"
    /\ ep' = [ep EXCEPT
          !.pc = "decided",
          !.add_space = _should_add_space(ep.prev_char, ep.curr_char, ep.gap)]
    /\ UNCHANGED <<fn, ah, fmt, ld, pg, mx, col, scr, pn, orch>>

SpecSpacing == SpacingInit /\ [][ShouldAddSpace]_vars

\* C24: no space when the gap is below 2; between two CJK characters a
\* space only when the gap exceeds 10; no space when either boundary
\* character is punctuation (any opening or closing bracket or sentence
\* terminator, Japanese or ASCII); otherwise a space exactly when the gap
\* exceeds 3.
IsCjk(char) == char \in {"u3042", "u3044"}

IsBracketOrTerminator(char) ==
    char \in {"(", ")", "uFF08", "uFF09", "u300C", "u300D", ".", "u3002"}

C24_SpaceDecision ==
    ep.pc = "decided" =>
        ep.add_space =
            IF ep.gap < 2 THEN FALSE
            ELSE IF IsCjk(ep.prev_char) /\ IsCjk(ep.curr_char) THEN ep.gap > 10
            ELSE IF IsBracketOrTerminator(ep.prev_char)
                      \/ IsBracketOrTerminator(ep.curr_char) THEN FALSE
            ELSE ep.gap > 3

\* the same with the code's two lists: closing brackets and terminators on
\* the left, opening brackets and terminators on the right
SpaceDecisionWithOneSidedBrackets ==
    ep.pc = "decided" =>
        ep.add_space =
            IF ep.gap < 2 THEN FALSE
            ELSE IF IsCjk(ep.prev_char) /\ IsCjk(ep.curr_char) THEN ep.gap > 10
            ELSE IF ep.prev_char \in {")", "uFF09", "u300D", ".", "u3002"}
                      \/ ep.curr_char \in {"(", "uFF08", "u300C", ".", "u3002"}
                 THEN FALSE
            ELSE ep.gap > 3

(***************************************************************************)
(* Line grouping inside one column (extractor.py _extract_column).         *)
(***************************************************************************)
MaxLineBoxes == 3

ColumnLinesInit ==
    LET \* boxes of one column whose tops are 14, 15 and 16 apart
        column_boxes ==
            { Box(<<"a">>, 0, 10, 0, 10, 10), Box(<<"b">>, 20, 30, 14, 24, 10),
              Box(<<"c">>, 40, 50, 15, 25, 10), Box(<<"d">>, 0, 10, 30, 40, 10),
              Box(<<"e">>, 20, 30, 46, 56, 10) }
    IN
    /\ \E words \in SeqsUpTo(column_boxes, MaxLineBoxes) \ {<<>>} :
          col = [pc |-> "column", words |-> words, sorted_words |-> <<>>,
                 lines |-> <<>>, text |-> <<>>]
    /\ fn = Off /\ ah = Off /\ fmt = Off /\ ld = Off /\ pg = Off
    /\ mx = Off /\ scr = Off /\ ep = Off /\ pn = Off /\ orch = Off

\* _extract_column on the boxes of the column
ExtractColumn ==
    /\ col.pc = "column"
    /\ LET sorted_words == StableSort(col.words, ByTopX0(col.words))
       IN  col' = [col EXCEPT
                 !.pc = "lines",
                 !.sorted_words = sorted_words,
                 !.lines = LineLoop(sorted_words, 2, <<>>, <<sorted_words[1]>>),
                 !.text = _extract_column(col.words)]
    /\ UNCHANGED <<fn, ah, fmt, ld, pg, mx, scr, ep, pn, orch>>

SpecColumnLines == ColumnLinesInit /\ [][ExtractColumn]_vars

\* the positions in sorted_words at which a line of `lines` begins
RECURSIVE LineStarts(_, _)
LineStarts(lines, k) ==
    IF k > Len(lines) THEN {}
    ELSE {1} \cup { i + Len(lines[k]) : i \in LineStarts(lines, k + 1) }

\* C27: within a column, after sorting by (top, left x), a box starts a new
\* line exactly when its vertical distance from the current line's
\* reference y (the top of the box before it) exceeds
\* line_height_threshold, 15 units; at a distance equal to the threshold
\* it stays on the current line.
C27_NewLineWhenDistanceExceedsThreshold ==
    col.pc = "lines" =>
        \A i \in 2..Len(col.sorted_words) :
            LET d == col.sorted_words[i].top - col.sorted_words[i - 1].top
                y_dist == IF d < 0 THEN -d ELSE d
            IN  (i \in LineStarts(col.lines, 1)) <=> y_dist > 15

\* the same with a new line from the threshold on
NewLineFromThresholdOn ==
    col.pc = "lines" =>
        \A i \in 2..Len(col.sorted_words) :
            LET d == col.sorted_words[i].top - col.sorted_words[i - 1].top
                y_dist == IF d < 0 THEN -d ELSE d
            IN  (i \in LineStarts(col.lines, 1)) <=> y_dist >= 15

====
